---- MODULE Spec2Model ----
(***************************************************************************)
(* lasr: live find-and-replace.  The model covers the consumer loop of     *)
(* src/tui.rs (App::run, handle_events, handle_key_event, update_pattern,  *)
(* start_search, on_finding, replace_all), the line editor of src/input.rs *)
(* and the producer threads of src/search.rs (search, walk) talking over   *)
(* crossbeam channels.                                                     *)
(*                                                                         *)
(* Options are sequences of length 0 (None) or 1 (Some).  A channel is     *)
(* identified by the number of the start_search call that created it.      *)
(* Variables whose comment says "history" are not program state: they      *)
(* record what happened so that properties can be stated over states.      *)
(***************************************************************************)
EXTENDS Integers, Sequences, FiniteSets, TLC

(* ------------------------------------------------------------------ *)
(* Bounds of the model                                                 *)
(* ------------------------------------------------------------------ *)
MaxGen == 2        \* start_search calls in one run
MaxKeys == 3       \* key presses in one run
MaxPat == 2        \* length of the text of either input line
MaxArg == 3        \* length of a pattern handed to Finder::new
MaxEdits == 1      \* writes to the files by other processes in one run
MaxLine == 3       \* length of the text of a LineInput driven on its own
FairKeyPresses == 2 \* key presses in one run under fair scheduling

(* ------------------------------------------------------------------ *)
(* Program constants                                                   *)
(* ------------------------------------------------------------------ *)
SEARCH_BUFFER == 3
\* a channel that buffers the pre-fetch margin
BufferedCapacity == SEARCH_BUFFER
\* bounded(0): a rendezvous channel
Capacity == 0
\* height of the result area of the terminal
Height == 3

Max(a, b) == IF a >= b THEN a ELSE b
\* the first operand without the clamp
MinUnclamped(a, b) == a
Min(a, b) == IF a <= b THEN a ELSE b

(* ------------------------------------------------------------------ *)
(* The file tree: entry 0 is the root directory, 1..5 its files in     *)
(* file-name order.  A file is its text, a sequence of characters.     *)
(* ------------------------------------------------------------------ *)
Root == 0
Tree == << <<"a", "\n", "b", "\n">>,
           <<"A", "a", "\n">>,
           <<"A", "\n">>,
           <<"a", "a", "\n">>,
           <<"A", "\n">> >>
Files == 1..Len(Tree)
Children(e) == IF e = Root THEN [i \in 1..Len(Tree) |-> i] ELSE <<>>
IsFile(e) == e \in Files

(* ------------------------------------------------------------------ *)
(* Regular expressions (regex crate, RegexBuilder).  The alphabet of   *)
(* the model has literal characters and the group parentheses; a       *)
(* pattern compiles iff its parentheses balance.  Matching is literal  *)
(* (an empty group matches the empty string).                          *)
(* ------------------------------------------------------------------ *)
RECURSIVE Depths(_, _, _)
\* the running parenthesis depth never drops below 0 and ends at 0
Depths(p, i, d) ==
    IF i > Len(p) THEN d = 0
    ELSE IF p[i] = "(" THEN Depths(p, i + 1, d + 1)
    ELSE IF p[i] = ")" THEN d > 0 /\ Depths(p, i + 1, d - 1)
    ELSE Depths(p, i + 1, d)

\* RegexBuilder::new(pattern).build() is Ok
Compiles(p) == Depths(p, 1, 0)

\* the literal characters of a compiled pattern
Literals(p) == SelectSeq(p, LAMBDA c : c \notin {"(", ")"})

Lower(c) == IF c = "A" THEN "a" ELSE IF c = "B" THEN "b" ELSE c
CharEq(c, d, ic) == c = d \/ (ic /\ Lower(c) = Lower(d))

\* the compiled regex r = [pattern, ignore_case] matches text t at index i
MatchAt(r, t, i) ==
    LET lit == Literals(r.pattern) IN
    /\ i + Len(lit) - 1 <= Len(t)
    /\ \A k \in 1..Len(lit) : CharEq(lit[k], t[i + k - 1], r.ignore_case)

IsMatch(r, t) == \E i \in 1..(Len(t) + 1) : MatchAt(r, t, i)

RECURSIVE FindIterFrom(_, _, _)
\* Regex::find_iter: the leftmost, non-overlapping matches of t from index i
\* on, as byte ranges start..end (0-based, end exclusive); an empty match is
\* followed by one character
FindIterFrom(r, t, i) ==
    LET n == Len(Literals(r.pattern)) IN
    IF i > Len(t)
    THEN (IF n = 0 THEN <<[start |-> Len(t), end |-> Len(t)]>> ELSE <<>>)
    ELSE IF MatchAt(r, t, i)
         THEN <<[start |-> i - 1, end |-> i - 1 + n]>>
              \o FindIterFrom(r, t, IF n = 0 THEN i + 1 ELSE i + n)
         ELSE FindIterFrom(r, t, i + 1)

\* find_iter giving 1-based offsets
FindIterOneBased(r, t) ==
    [k \in DOMAIN FindIterFrom(r, t, 1) |->
        [start |-> FindIterFrom(r, t, 1)[k].start + 1,
         end |-> FindIterFrom(r, t, 1)[k].end + 1]]

FindIter(r, t) == FindIterFrom(r, t, 1)

\* the capture reference ${0} of a replacement string: one character of the
\* model's alphabet
Group0 == "${0}"

\* a replacement string taken literally
ExpandLiteral(rep, m) == rep

RECURSIVE Expand(_, _)
\* the replacement string with its capture references expanded for match m
Expand(rep, m) ==
    IF rep = <<>> THEN <<>>
    ELSE (IF Head(rep) = Group0 THEN m ELSE <<Head(rep)>>) \o Expand(Tail(rep), m)

RECURSIVE ReplaceFrom(_, _, _, _)
\* Regex::replace_all: leftmost, non-overlapping matches of t from index i
\* on are replaced by the expanded rep; an empty match is followed by one
\* character
ReplaceFrom(r, t, rep, i) ==
    LET n == Len(Literals(r.pattern)) IN
    IF i > Len(t) THEN (IF n = 0 THEN Expand(rep, <<>>) ELSE <<>>)
    ELSE IF MatchAt(r, t, i)
         THEN IF n = 0
              THEN Expand(rep, <<>>) \o <<t[i]>> \o ReplaceFrom(r, t, rep, i + 1)
              ELSE Expand(rep, SubSeq(t, i, i + n - 1))
                   \o ReplaceFrom(r, t, rep, i + n)
         ELSE <<t[i]>> \o ReplaceFrom(r, t, rep, i + 1)

ReplaceAllText(r, t, rep) == ReplaceFrom(r, t, rep, 1)

(* ------------------------------------------------------------------ *)
(* Finder (src/finder.rs): the lines of a file that match              *)
(* ------------------------------------------------------------------ *)
RECURSIVE LinesFrom(_, _, _, _)
\* the lines of text t, each with its terminator, as LineMatch candidates
\* numbered from 1: start is the index of the first character of the line
LinesFrom(t, start, i, n) ==
    IF i > Len(t)
    THEN IF start > Len(t) THEN <<>>
         ELSE <<[number |-> n, text |-> SubSeq(t, start, Len(t))]>>
    ELSE IF t[i] = "\n"
         THEN <<[number |-> n, text |-> SubSeq(t, start, i)]>>
              \o LinesFrom(t, i + 1, i + 1, n + 1)
         ELSE LinesFrom(t, start, i + 1, n)

TextLines(t) == LinesFrom(t, 1, 1, 1)

\* the line without its terminator: the searcher matches inside the line
Body(l) == SelectSeq(l, LAMBDA c : c # "\n")

\* RegexFinder::find: one LineMatch per matching line, in document order,
\* with the ranges of the matches within the line
find(params, t) ==
    LET r == [pattern |-> params.pattern, ignore_case |-> params.ignore_case]
        hit == SelectSeq(TextLines(t), LAMBDA l : IsMatch(r, Body(l.text)))
    IN [k \in DOMAIN hit |->
           [number |-> hit[k].number, text |-> hit[k].text,
            ranges |-> FindIter(r, hit[k].text)]]

(* ------------------------------------------------------------------ *)
(* Finder::new (src/finder.rs)                                         *)
(* ------------------------------------------------------------------ *)
FinderAlphabet == {"$", "X", "_", "0", "a", "("}
Upper == {"X"}
Digits == {"0"}

\* \$[A-Z_][A-Z_0-9]* matches at index i: the first two characters decide
MetaVarAt(p, i) ==
    i + 1 <= Len(p) /\ p[i] = "$" /\ p[i + 1] \in Upper \cup {"_"}

\* \$\$\$ matches at index i
WildcardAt(p, i) ==
    i + 2 <= Len(p) /\ p[i] = "$" /\ p[i + 1] = "$" /\ p[i + 2] = "$"

\* is_ast_pattern without the $$$ alternative
is_ast_pattern_metavar_only(pattern) ==
    \E i \in 1..Len(pattern) : MetaVarAt(pattern, i)

\* is_ast_pattern: the regex matches somewhere in the pattern
is_ast_pattern(pattern) ==
    \E i \in 1..Len(pattern) : MetaVarAt(pattern, i) \/ WildcardAt(pattern, i)

\* Finder::new: the variant returned, "None" for no Finder
FinderNew(pattern) ==
    IF is_ast_pattern(pattern) THEN "Ast"
    ELSE IF Compiles(pattern) THEN "Regex" ELSE "None"

(* ------------------------------------------------------------------ *)
(* AstFinder (src/finder.rs, ast-grep).  The languages of the model    *)
(* have identifiers of one character, calls f(...) and, in Rust only,  *)
(* function items fn f(){...}; "fn" is one character of the model.     *)
(* The parser is modelled by what it yields for these texts: the       *)
(* nodes of a kind, each the span of its text, in pre-order.           *)
(* ------------------------------------------------------------------ *)
\* a from_path that falls back to Python for an unknown extension
LangDefault(path) ==
    CASE path \in {2, 5} -> "rs"
      [] OTHER -> "py"

\* SupportLang::from_path: files 1 and 4 are named *.py, 2 and 5 *.rs and 3
\* has an extension of no language ("none" stands for None)
Lang(path) ==
    CASE path \in {1, 4} -> "py"
      [] path \in {2, 5} -> "rs"
      [] OTHER -> "none"

\* $X($$$) and fn $X
CallPattern == <<"$", "X", "(", "$", "$", "$", ")">>
FnPattern == <<"fn", " ", "$", "X">>

\* Pattern::try_new(pattern, lang): the kind of node the pattern matches in
\* the language, "invalid" for Err.  fn $X parses in Rust and not in Python
\* (tests::test_search_ast_invalid_pattern)
PatternKind(pattern, lang) ==
    IF pattern = CallPattern /\ lang \in {"py", "rs"} THEN "call"
    ELSE IF pattern = FnPattern /\ lang = "rs" THEN "fn"
    ELSE "invalid"

Idents == {"f", "g", "x", "a", "b", "A"}

RECURSIVE CloseOf(_, _, _, _, _)
\* the index of the bracket that closes the one opened before index i, 0 if
\* it is never closed
CloseOf(t, i, depth, open, close) ==
    IF i > Len(t) THEN 0
    ELSE IF t[i] = close
         THEN (IF depth = 0 THEN i ELSE CloseOf(t, i + 1, depth - 1, open, close))
    ELSE IF t[i] = open THEN CloseOf(t, i + 1, depth + 1, open, close)
    ELSE CloseOf(t, i + 1, depth, open, close)

\* the first index from i on that holds c, 0 for none
FirstIndex(t, i, c) ==
    LET hits == {j \in i..Len(t) : t[j] = c} IN
    IF hits = {} THEN 0 ELSE CHOOSE j \in hits : \A k \in hits : j <= k

\* the index of the last character of the node of the kind that starts at
\* index i, 0 if none starts there; the name of a function item with its
\* parameter list is not a call
NodeEnd(t, i, kind) ==
    CASE kind = "call" ->
            IF /\ t[i] \in Idents
               /\ i + 1 <= Len(t)
               /\ t[i + 1] = "("
               /\ ~(i >= 3 /\ t[i - 2] = "fn")
            THEN CloseOf(t, i + 2, 0, "(", ")")
            ELSE 0
      [] kind = "fn" ->
            IF t[i] = "fn" /\ FirstIndex(t, i, "{") # 0
            THEN CloseOf(t, FirstIndex(t, i, "{") + 1, 0, "{", "}")
            ELSE 0
      [] OTHER -> 0

RECURSIVE NodesFrom(_, _, _)
\* Node::find_all: the nodes of the kind from index i on, in pre-order; a
\* node inside a matching node is found as well
NodesFrom(t, kind, i) ==
    IF i > Len(t) THEN <<>>
    ELSE (IF NodeEnd(t, i, kind) # 0
          THEN <<[start |-> i, end |-> NodeEnd(t, i, kind)]>>
          ELSE <<>>) \o NodesFrom(t, kind, i + 1)

FindAll(t, kind) == NodesFrom(t, kind, 1)

\* line numbers counted from 1, as the regex finder counts them
LineOfOneBased(t, i) == Cardinality({j \in 1..(i - 1) : t[j] = "\n"}) + 1

\* start_pos().line(): the number of line terminators before index i
LineOf(t, i) == Cardinality({j \in 1..(i - 1) : t[j] = "\n"})

\* AstFinder::find: one LineMatch per matching node; the result is empty for
\* a path without a language and for a pattern the language rejects
AstFind(pattern, path, t) ==
    IF Lang(path) = "none" THEN <<>>
    ELSE IF PatternKind(pattern, Lang(path)) = "invalid" THEN <<>>
    ELSE LET nodes == FindAll(t, PatternKind(pattern, Lang(path))) IN
         [k \in DOMAIN nodes |->
             [number |-> LineOf(t, nodes[k].start),
              text |-> SubSeq(t, nodes[k].start, nodes[k].end),
              ranges |-> <<[start |-> 0,
                            end |-> nodes[k].end - nodes[k].start + 1]>>]]

\* the metavariable references of a replacement, $X and $$$: each is one
\* character of the model
MetaX == "$X"
MetaRest == "$$$"
\* the replacement of tests::test_ast_replace, $X($$$,5)
AddArgument == <<MetaX, "(", MetaRest, ",", "5", ")">>

RECURSIVE ExpandAst(_, _, _)
\* the replacement with $X and $$$ replaced by what they matched
ExpandAst(rep, x, rest) ==
    IF rep = <<>> THEN <<>>
    ELSE (CASE Head(rep) = MetaX -> x
            [] Head(rep) = MetaRest -> rest
            [] OTHER -> <<Head(rep)>>) \o ExpandAst(Tail(rep), x, rest)

\* what the metavariables of the pattern matched in a node of text t: the
\* callee and the arguments of a call, the name of a function item
MatchedX(t, node, kind) ==
    IF kind = "call" THEN <<t[node.start]>> ELSE <<t[node.start + 2]>>
MatchedRest(t, node, kind) ==
    IF kind = "call" THEN SubSeq(t, node.start + 2, node.end - 1) ELSE <<>>

\* the matches that lie in no other match
Outermost(nodes) ==
    SelectSeq(nodes, LAMBDA n :
        ~\E k \in DOMAIN nodes :
            nodes[k].start < n.start /\ n.end <= nodes[k].end)

\* Node::replace_all: one edit per match, in document order, positions and
\* lengths those of the text before any edit.  Whether the library gives an
\* edit to a match inside another match is not decided by this repository:
\* nested = TRUE models a library that does, FALSE one that edits only the
\* outermost matches
ReplaceAllEdits(t, kind, rep, nested) ==
    LET nodes == IF nested THEN FindAll(t, kind) ELSE Outermost(FindAll(t, kind)) IN
    [k \in DOMAIN nodes |->
        [position |-> nodes[k].start - 1,
         deleted_length |-> nodes[k].end - nodes[k].start + 1,
         inserted_text |-> ExpandAst(rep, MatchedX(t, nodes[k], kind),
                                     MatchedRest(t, nodes[k], kind))]]

\* root.edit(edit): the text with one edit applied
ApplyEdit(t, ed) ==
    SubSeq(t, 1, ed.position) \o ed.inserted_text
        \o SubSeq(t, ed.position + ed.deleted_length + 1, Len(t))

RECURSIVE ApplyReversed(_, _)
\* for edit in edits.into_iter().rev(): the last edit first
ApplyReversed(t, edits) ==
    IF edits = <<>> THEN t
    ELSE ApplyReversed(ApplyEdit(t, edits[Len(edits)]),
                       SubSeq(edits, 1, Len(edits) - 1))

\* AstFinder::replace: the new text, "Err" for an error
AstReplace(pattern, path, t, rep, nested) ==
    IF Lang(path) = "none" THEN "Err"
    ELSE IF PatternKind(pattern, Lang(path)) = "invalid" THEN "Err"
    ELSE ApplyReversed(t, ReplaceAllEdits(t, PatternKind(pattern, Lang(path)),
                                          rep, nested))

\* Finder::find
FinderFind(p, path, t) ==
    IF is_ast_pattern(p.pattern) THEN AstFind(p.pattern, path, t) ELSE find(p, t)

(* ------------------------------------------------------------------ *)
(* RegexFinder with the end anchor (src/finder.rs).  A pattern here is *)
(* literal characters, optionally followed by $.  RegexFinder::new     *)
(* compiles the pattern twice: the regex that computes the ranges      *)
(* never has the multi-line flag, the matcher of the searcher has it   *)
(* when params.multi_line is set.  Without the flag $ matches at the   *)
(* end of the haystack only, with it also before a line terminator.    *)
(* ------------------------------------------------------------------ *)
AnchoredBody(p) ==
    IF p # <<>> /\ p[Len(p)] = "$" THEN SubSeq(p, 1, Len(p) - 1) ELSE p

\* $ holds after the first e characters of t; m is the multi-line flag
AnchorHolds(t, e, m) == e = Len(t) \/ (m /\ t[e + 1] = "\n")

\* the pattern p, compiled with the flags ic and m, matches t at index i
AnchoredMatchAt(p, ic, m, t, i) ==
    LET body == AnchoredBody(p) IN
    /\ MatchAt([pattern |-> body, ignore_case |-> ic], t, i)
    /\ body # p => AnchorHolds(t, i - 1 + Len(body), m)

RECURSIVE AnchoredFindIterFrom(_, _, _, _, _)
\* find_iter of the compiled pattern: leftmost, non-overlapping matches
\* from index i on; an empty match is followed by one character
AnchoredFindIterFrom(p, ic, m, t, i) ==
    LET n == Len(AnchoredBody(p)) IN
    IF i > Len(t) + 1 THEN <<>>
    ELSE IF AnchoredMatchAt(p, ic, m, t, i)
         THEN <<[start |-> i - 1, end |-> i - 1 + n]>>
              \o AnchoredFindIterFrom(p, ic, m, t, IF n = 0 THEN i + 1 ELSE i + n)
         ELSE AnchoredFindIterFrom(p, ic, m, t, i + 1)

RECURSIVE LineStart(_, _)
\* the index in the file of the first character of line k
LineStart(lines, k) == IF k = 1 THEN 1 ELSE LineStart(lines, k - 1) + Len(lines[k - 1].text)

\* the searcher reports line k of text t.  In multi-line mode the matcher
\* runs over the whole file and the lines of each match are reported; line
\* by line it runs either on each line without its terminator (by_line) or
\* over the buffer, reporting the line a match starts in
SearcherReports(params, t, lines, k, by_line) ==
    LET p == params.pattern
        ic == params.ignore_case
        first == LineStart(lines, k)
        span == first..(first + Len(lines[k].text) - 1)
    IN IF ~params.multi_line /\ by_line
       THEN \E i \in 1..(Len(Body(lines[k].text)) + 1) :
               AnchoredMatchAt(p, ic, FALSE, Body(lines[k].text), i)
       ELSE \E i \in span : AnchoredMatchAt(p, ic, params.multi_line, t, i)

\* RegexFinder::find: a LineMatch for every line the searcher reports, its
\* ranges computed by self.regex.find_iter(text) on the text of the line
\* with its terminator
RegexFind(params, t, by_line) ==
    LET lines == TextLines(t)
        hit == SelectSeq([k \in DOMAIN lines |-> [lines[k] EXCEPT !.number = k]],
                         LAMBDA l : SearcherReports(params, t, lines, l.number, by_line))
    IN [k \in DOMAIN hit |->
           [number |-> hit[k].number, text |-> hit[k].text,
            ranges |-> AnchoredFindIterFrom(params.pattern, params.ignore_case,
                                            FALSE, hit[k].text, 1)]]

(* ------------------------------------------------------------------ *)
(* Key bindings (src/config.rs, Config::default)                       *)
(* ------------------------------------------------------------------ *)
KeyMap ==
    [k \in {"enter", "esc", "tab", "c-s", "c-l", "left", "right", "home", "end",
            "backspace", "c-d", "c-w", "c-k", "c-u", "c-n", "c-p", "c-g"} |->
        CASE k = "enter" -> "Confirm"
          [] k = "esc" -> "Exit"
          [] k = "tab" -> "ToggleSearchReplace"
          [] k = "c-s" -> "ToggleIgnoreCase"
          [] k = "c-l" -> "ToggleMultiLine"
          [] k = "left" -> "CursorLeft"
          [] k = "right" -> "CursorRight"
          [] k = "home" -> "CursorHome"
          [] k = "end" -> "CursorEnd"
          [] k = "backspace" -> "DeleteCharBackward"
          [] k = "c-d" -> "DeleteChar"
          [] k = "c-w" -> "DeleteWord"
          [] k = "c-k" -> "DeleteToEndOfLine"
          [] k = "c-u" -> "DeleteLine"
          [] k = "c-n" -> "ScrollDown"
          [] k = "c-p" -> "ScrollUp"
          [] k = "c-g" -> "ScrollTop"]

\* key_map.get(&key_event.into()): "Noop" stands for None
ActionOf(key) == IF key \in DOMAIN KeyMap THEN KeyMap[key] ELSE "Noop"

\* KeyCode::Char(c) without modifiers other than shift; the four characters
\* of ${0} are typed as one character of the model
CharKeys == {"a", "(", " ", Group0}

(* ------------------------------------------------------------------ *)
(* LineInput (src/input.rs)                                            *)
(* ------------------------------------------------------------------ *)
NewLineInput == [pattern |-> <<>>, cursor_pos |-> 0]

RemoveAt(s, i) == SubSeq(s, 1, i - 1) \o SubSeq(s, i + 1, Len(s))
InsertAt(s, i, c) == SubSeq(s, 1, i - 1) \o <<c>> \o SubSeq(s, i, Len(s))

\* trim_end left out: the whitespace before the cursor is kept
TrimEndNone(s) == s

RECURSIVE TrimEnd(_)
TrimEnd(s) == IF s # <<>> /\ s[Len(s)] = " " THEN TrimEnd(SubSeq(s, 1, Len(s) - 1)) ELSE s

\* find instead of rfind: the first whitespace character
FindSpace(s) ==
    LET hits == {i \in 1..Len(s) : s[i] = " "} IN
    IF hits = {} THEN 0 ELSE CHOOSE i \in hits : \A j \in hits : i <= j

\* str::rfind(char::is_whitespace) as a 1-based index, 0 for None
RFindSpace(s) ==
    LET hits == {i \in 1..Len(s) : s[i] = " "} IN
    IF hits = {} THEN 0 ELSE CHOOSE i \in hits : \A j \in hits : j <= i

\* LineInput::handle_key_event: the input after the key, and whether the
\* result is Some (the pattern is reported as changed)
LineInputKey(li, key) ==
    LET a == ActionOf(key)
        n == Len(li.pattern)
        c == li.cursor_pos
        same == [li |-> li, changed |-> FALSE]
    IN
    CASE a = "CursorLeft" ->
            [li |-> [li EXCEPT !.cursor_pos = Max(c - 1, 0)], changed |-> FALSE]
      [] a = "CursorRight" ->
            [li |-> [li EXCEPT !.cursor_pos = Min(c + 1, n)], changed |-> FALSE]
      [] a = "CursorHome" ->
            [li |-> [li EXCEPT !.cursor_pos = 0], changed |-> FALSE]
      [] a = "CursorEnd" ->
            [li |-> [li EXCEPT !.cursor_pos = n], changed |-> FALSE]
      [] a = "DeleteChar" ->
            IF c >= n THEN same
            ELSE [li |-> [li EXCEPT !.pattern = RemoveAt(li.pattern, c + 1)],
                  changed |-> TRUE]
      [] a = "DeleteCharBackward" ->
            IF c = 0 THEN same
            ELSE [li |-> [pattern |-> RemoveAt(li.pattern, c), cursor_pos |-> c - 1],
                  changed |-> TRUE]
      [] a = "DeleteWord" ->
            IF c = 0 THEN same
            ELSE LET s == SubSeq(li.pattern, 1, c)
                     rest == SubSeq(li.pattern, c + 1, n)
                     idx == RFindSpace(TrimEnd(s))
                 IN IF idx > 0
                    THEN [li |-> [pattern |-> SubSeq(s, 1, idx) \o rest,
                                  cursor_pos |-> idx],
                          changed |-> TRUE]
                    ELSE [li |-> [pattern |-> rest, cursor_pos |-> 0],
                          changed |-> TRUE]
      [] a = "DeleteToEndOfLine" ->
            IF c >= n THEN same
            ELSE [li |-> [li EXCEPT !.pattern = SubSeq(li.pattern, 1, c)],
                  changed |-> TRUE]
      [] a = "DeleteLine" ->
            IF n = 0 THEN same
            ELSE [li |-> NewLineInput, changed |-> TRUE]
      [] OTHER ->
            IF key \in CharKeys
            THEN [li |-> [pattern |-> InsertAt(li.pattern, c + 1, key),
                          cursor_pos |-> c + 1],
                  changed |-> TRUE]
            ELSE same

(* ------------------------------------------------------------------ *)
(* State                                                               *)
(* ------------------------------------------------------------------ *)
VARIABLES
    \* App (src/tui.rs)
    pattern_input, replacement_input, editing_pattern, re, ignore_case,
    multi_line, scroll, subs, search_rx,
    threads,        \* Config.threads
    keys,           \* the keys the user may press in this run
    fx,             \* a call of a pure function: its arguments and result
    faulty,         \* the entries on which walk fails: the walker yields an
                    \* error for them, or their metadata or text cannot be read
    cap,            \* the capacity of the search channels
    editsLeft,      \* writes by other processes still to come
    paths,          \* App.paths: the roots given on the command line
    pc,             \* where the main thread is: "run" (the loop of App::run),
                    \* "cached" / "drain" (the two loops of replace_all),
                    \* "committed" / "failed" (replace_all returned Ok / Err),
                    \* "exit" (Exit requested), "panic"; in a test of
                    \* search: "search" (in the call), "collect" (in
                    \* rx.iter().collect()), "collected"
    ci,             \* index of the next cached result in replace_all
    evReady,        \* the event the input thread is blocked sending, if any
    keysLeft,       \* key presses still to come
    gens,           \* number of start_search calls so far
    params,         \* per search thread: pattern, ignore_case, multi_line
    todo,           \* per search thread: entries the walker still has to yield
    quitNow,        \* per search thread: the parallel walker's quit flag
    wk,             \* per search thread and walker thread: pc, entry, lines,
                    \* failed (its send returned an error)
    buf,            \* per channel: messages buffered in it
    disk,           \* the text of every file
    \* history
    delivered,      \* one record per FileMatch received by the main thread
    written,        \* the files written, each with the search thread that
                    \* recorded the match
    confirmSeen,    \* a key bound to Confirm has been handled
    recomputed,     \* update_replacement has run over cached results
    lateFinding,    \* on_finding has cached a result after update_replacement
                    \* had run over cached results
    ioFailed,       \* paths whose read or write failed
    pending,        \* per search thread: files whose search found lines and
                    \* whose FileMatch no receiver has taken yet, unless the
                    \* send of it failed
    visited,        \* per search thread: the entries walk was called on, in
                    \* the order of the calls
    results,        \* the FileMatches a caller of search collected from the
                    \* channel, in the order received
    edited          \* per file: the text another process wrote to it last,
                    \* if any

appVars == <<pattern_input, replacement_input, editing_pattern, re, ignore_case,
             multi_line, scroll, subs, search_rx>>
prodVars == <<gens, params, todo, quitNow, wk, buf>>
histVars == <<delivered, written, confirmSeen, recomputed, lateFinding, ioFailed,
              pending,
              visited, results, edited>>
envVars == <<threads, keys, fx, faulty, cap, editsLeft, paths, paths>>
vars == <<appVars, envVars, pc, ci, evReady, keysLeft, prodVars, disk, histVars>>

\* the keys pressed in the model; with a parallel walker the model presses
\* fewer kinds of keys
Keys == {"a", "(", "backspace", "tab", "enter", "esc"}
ParallelKeys == {"a", "(", "enter", "esc"}
AllKeys == DOMAIN KeyMap \cup CharKeys
\* no pure function has been called
NoCall == [fn |-> "none"]

Gens == 1..MaxGen
\* available_parallelism of the machine, used when Config.threads is 0
Cores == {1, 2}
Workers == Cores
\* a walker that ignores the thread count it is given
NumWorkersAll(t) == Cardinality(Cores)

NumWorkers(t) == IF t = 0 THEN Cardinality(Cores) ELSE t
NoParams == [pattern |-> <<>>, ignore_case |-> FALSE, multi_line |-> FALSE]
NoWork == [pc |-> "exit", entry |-> Root, lines |-> <<>>, failed |-> FALSE]
Idle == [pc |-> "idle", entry |-> Root, lines |-> <<>>, failed |-> FALSE]

\* App::new and the rest of the program before the first key press, but for
\* the replacement line, the --ignore-case flag and the environment
Started ==
    /\ pattern_input = NewLineInput
    /\ editing_pattern = TRUE
    /\ re = <<>>
    /\ multi_line = FALSE
    /\ scroll = 0
    /\ subs = <<>>
    /\ search_rx = <<>>
    /\ pc = "run"
    /\ ci = 1
    /\ evReady = <<>>
    /\ keysLeft = MaxKeys
    /\ gens = 0
    /\ params = [g \in Gens |-> NoParams]
    /\ todo = [g \in Gens |-> <<>>]
    /\ quitNow = [g \in Gens |-> FALSE]
    /\ wk = [g \in Gens |-> [w \in Workers |-> NoWork]]
    /\ buf = [g \in Gens |-> <<>>]
    /\ disk = Tree
    /\ delivered = {}
    /\ written = {}
    /\ confirmSeen = FALSE
    /\ recomputed = FALSE
    /\ lateFinding = FALSE
    /\ ioFailed = {}
    /\ pending = [g \in Gens |-> {}]
    /\ visited = [g \in Gens |-> <<>>]
    /\ results = <<>>
    /\ edited = [f \in Files |-> <<>>]
    /\ faulty = {}
    /\ cap = Capacity

Init ==
    /\ Started
    /\ replacement_input = NewLineInput
    /\ ignore_case = FALSE
    /\ threads \in {0, 1}
    /\ keys = (IF threads = 1 THEN Keys ELSE ParallelKeys)
    /\ fx = NoCall
    /\ editsLeft = 0
    /\ paths = <<Root>>

(* ------------------------------------------------------------------ *)
(* Channels (crossbeam): the receiver of channel g lives as long as    *)
(* App.search_rx holds it and the App itself lives; a test that calls   *)
(* search holds its receiver until it has collected the results        *)
(* ------------------------------------------------------------------ *)
AppAlive == pc \in {"run", "cached", "drain", "search", "collect"}
\* receivers that start_search replaced are kept instead of dropped
RxAliveKept(g) == AppAlive /\ search_rx # <<>> /\ g \in 1..search_rx[1]

RxAlive(g) == AppAlive /\ search_rx = <<g>>
\* walker threads of g blocked in tx.send
Senders(g) == {w \in Workers : wk[g][w].pc = "send"}
\* a channel that disconnects when one of its senders is dropped
DisconnectedByOne(g) == \E w \in Workers : wk[g][w].pc = "exit"

\* every sender of channel g has been dropped: search has returned
Disconnected(g) == \A w \in Workers : wk[g][w].pc = "exit"
\* walker threads that fill one shared vector of lines, that of thread 1
FileMatchOfShared(g, w) == [path |-> wk[g][w].entry, lines |-> wk[g][1].lines, origin |-> g]

\* the FileMatch walker thread w of search thread g sends: the lines its own
\* clone of the Finder found
FileMatchOf(g, w) == [path |-> wk[g][w].entry, lines |-> wk[g][w].lines, origin |-> g]

(* ------------------------------------------------------------------ *)
(* App (src/tui.rs)                                                    *)
(* ------------------------------------------------------------------ *)
\* the replacement shown for the match at range rg of text: the regex is run
\* on the matched slice alone
MatchReplacement(r, text, rg, rep) ==
    ReplaceAllText(r, SubSeq(text, rg.start + 1, rg.end), rep)

\* TextSubstitution::new
TextSubstitutionNew(line, r, rep) ==
    LET found == FindIter(r, line.text) IN
    [start_line |-> line.number,
     line_count |-> Len(TextLines(line.text)),
     text |-> line.text,
     matches |-> [k \in DOMAIN found |->
                    [range |-> found[k],
                     replacement |-> MatchReplacement(r, line.text, found[k], rep)]]]

\* TextSubstitution::update_replacement
TextUpdateReplacement(ts, r, rep) ==
    [ts EXCEPT !.matches =
        [k \in DOMAIN ts.matches |->
            [ts.matches[k] EXCEPT !.replacement =
                MatchReplacement(r, ts.text, ts.matches[k].range, rep)]]]

\* FileSubstitution::new; origin is history: the search thread that sent
\* the FileMatch
FileSubstitutionNew(file, r, rep) ==
    [path |-> file.path,
     subs |-> [k \in DOMAIN file.lines |-> TextSubstitutionNew(file.lines[k], r, rep)],
     origin |-> file.origin]

\* FileSubstitution::update_replacement
FileUpdateReplacement(fs, r, rep) ==
    [fs EXCEPT !.subs = [k \in DOMAIN fs.subs |-> TextUpdateReplacement(fs.subs[k], r, rep)]]

RECURSIVE SumLineCount(_)
SumLineCount(tss) ==
    IF tss = <<>> THEN 0 ELSE Head(tss).line_count + SumLineCount(Tail(tss))

\* FileSubstitution::line_count
LineCount(sub) == SumLineCount(sub.subs)

RECURSIVE AreasFrom(_, _, _)
\* App::draw: the number of result areas laid out from the i-th cached
\* result on, with size_left rows left
AreasFrom(ss, i, size_left) ==
    IF i > Len(ss) \/ size_left <= 0 THEN 0
    ELSE 1 + AreasFrom(ss, i + 1, Max(size_left - (LineCount(ss[i]) + 2), 0))

\* a draw that always asks for more results
NeedMoreAlways(ss, sc) == TRUE

\* App::draw: true if more results are needed
NeedMore(ss, sc) == Len(ss) < AreasFrom(ss, sc + 1, Height) + SEARCH_BUFFER + sc

\* update_pattern with a start_search that keeps a receiver it already holds
update_pattern_keep_rx(text, ic, old, g) ==
    IF Compiles(text)
    THEN [re |-> <<[pattern |-> text, ignore_case |-> ic]>>,
          search_rx |-> IF old.search_rx = <<>> THEN <<g>> ELSE old.search_rx,
          subs |-> <<>>, start |-> TRUE]
    ELSE [re |-> old.re, search_rx |-> old.search_rx, subs |-> old.subs,
          start |-> FALSE]

\* update_pattern without subs.clear()
update_pattern_keep_subs(text, ic, old, g) ==
    IF Compiles(text)
    THEN [re |-> <<[pattern |-> text, ignore_case |-> ic]>>,
          search_rx |-> <<g>>, subs |-> old.subs, start |-> TRUE]
    ELSE [re |-> old.re, search_rx |-> old.search_rx, subs |-> old.subs,
          start |-> FALSE]

\* App::update_pattern: the new re, search_rx and subs, and whether
\* start_search ran; g is the channel start_search would create
update_pattern(text, ic, old, g) ==
    IF Compiles(text)
    THEN [re |-> <<[pattern |-> text, ignore_case |-> ic]>>,
          search_rx |-> <<g>>, subs |-> <<>>, start |-> TRUE]
    ELSE [re |-> old.re, search_rx |-> old.search_rx, subs |-> old.subs,
          start |-> FALSE]

\* on_finding building the preview with an empty replacement string
on_finding_no_replacement(r, ss, finding, rep) ==
    IF r = <<>> THEN ss ELSE Append(ss, FileSubstitutionNew(finding, r[1], <<>>))

\* App::on_finding
on_finding(r, ss, finding, rep) ==
    IF r = <<>> THEN ss ELSE Append(ss, FileSubstitutionNew(finding, r[1], rep))

\* update_replacement dropping the cached results, as a new search would
update_replacement_drop(r, ss, rep) == <<>>

\* App::update_replacement
update_replacement(r, ss, rep) ==
    IF r = <<>> THEN ss
    ELSE [i \in DOMAIN ss |-> FileUpdateReplacement(ss[i], r[1], rep)]

\* handle_key_event returning State::Confirm for Exit as well
KeyStateExitConfirms(a) ==
    CASE a = "Exit" -> "Confirm"
      [] a = "Confirm" -> "Confirm"
      [] OTHER -> "Continue"

\* App::handle_key_event: the State it returns for a bound action
KeyState(a) ==
    CASE a = "Exit" -> "Exit"
      [] a = "Confirm" -> "Confirm"
      [] OTHER -> "Continue"

\* a select with the search arm first
SelectSearchFirst(eventReady, searchReady) ==
    IF searchReady THEN "search" ELSE IF eventReady THEN "event" ELSE "block"

\* select_biased! in App::handle_events: the arm taken
SelectBiased(eventReady, searchReady) ==
    IF eventReady THEN "event" ELSE IF searchReady THEN "search" ELSE "block"

\* replace_all without its second loop
AfterCachedNoDrain(rx) == "committed"

\* replace_all, after the cached results: done, or drain the channel
AfterCached(rx) == IF rx = <<>> THEN "committed" ELSE "drain"

\* replace_all entered with the given state: where it goes first
ReplaceAllEntry(r, ss, rx) ==
    IF r = <<>> THEN "committed"
    ELSE IF ss # <<>> THEN "cached" ELSE AfterCached(rx)

\* walk ignoring the result of tx.send
WalkAfterSendContinue(ok) == "Continue"

\* walk: the WalkState after tx.send returned
WalkAfterSend(ok) == IF ok THEN "Continue" ELSE "Quit"

\* the recv arm of handle_events can complete
SearchReady ==
    /\ NeedMore(subs, scroll)
    /\ search_rx # <<>>
    /\ LET g == search_rx[1] IN
       buf[g] # <<>> \/ Senders(g) # {} \/ Disconnected(g)

Arm == SelectBiased(evReady # <<>>, SearchReady)

\* App::handle_key_event up to the calls of update_pattern, update_replacement
\* and replace_all: the fields it sets, whether it calls update_pattern or
\* update_replacement, and the State it returns.  ScrollDown computes subs.len() - 1 in usize: with no cached
\* result a debug build panics and a release build wraps (wrap = TRUE)
handle_key_event(key, wrap) ==
    LET a == ActionOf(key)
        same == [pattern_input |-> pattern_input,
                 replacement_input |-> replacement_input,
                 editing_pattern |-> editing_pattern,
                 ignore_case |-> ignore_case, multi_line |-> multi_line,
                 scroll |-> scroll, update |-> FALSE, update_repl |-> FALSE,
                 state |-> KeyState(a)]
    IN
    CASE a \in {"Exit", "Confirm"} -> same
      [] a = "ToggleSearchReplace" ->
            [same EXCEPT !.editing_pattern = ~editing_pattern]
      [] a = "ToggleIgnoreCase" ->
            [same EXCEPT !.ignore_case = ~ignore_case, !.update = TRUE]
      [] a = "ToggleMultiLine" ->
            [same EXCEPT !.multi_line = ~multi_line, !.update = TRUE]
      [] a = "ScrollDown" ->
            IF subs = <<>>
            THEN IF wrap THEN [same EXCEPT !.scroll = scroll + 1]
                 ELSE [same EXCEPT !.state = "Panic"]
            ELSE IF scroll < Len(subs) - 1
                 THEN [same EXCEPT !.scroll = scroll + 1]
                 ELSE same
      [] a = "ScrollUp" -> [same EXCEPT !.scroll = Max(scroll - 1, 0)]
      [] a = "ScrollTop" -> [same EXCEPT !.scroll = 0]
      [] OTHER ->
            IF editing_pattern
            THEN LET r == LineInputKey(pattern_input, key) IN
                 [same EXCEPT !.pattern_input = r.li, !.update = r.changed]
            ELSE LET r == LineInputKey(replacement_input, key) IN
                 [same EXCEPT !.replacement_input = r.li,
                              !.update_repl = r.changed]

(* ------------------------------------------------------------------ *)
(* Actions of the main thread                                          *)
(* ------------------------------------------------------------------ *)
\* search: with threads == 1 the entries come from the sorted iterator
Sequential == threads = 1


\* the input thread of main.rs reads a key press and blocks sending it
UserKey(k) ==
    /\ pc = "run"
    /\ k \in keys
    /\ evReady = <<>>
    /\ keysLeft > 0
    /\ LET r == handle_key_event(k, TRUE) IN
       /\ Len(r.pattern_input.pattern) <= MaxPat
       /\ Len(r.replacement_input.pattern) <= MaxPat
       /\ r.update => gens < MaxGen
    /\ evReady' = <<k>>
    /\ keysLeft' = keysLeft - 1
    /\ UNCHANGED <<appVars, envVars, pc, ci, prodVars, disk, histVars>>

\* App::start_search for channel g: the new search thread
start_search(g, text, ic, ml) ==
    /\ gens' = g
    /\ params' = [params EXCEPT ![g] =
                    [pattern |-> text, ignore_case |-> ic, multi_line |-> ml]]
    /\ todo' = [todo EXCEPT ![g] = paths]
    /\ wk' = [wk EXCEPT ![g] =
                [w \in Workers |-> IF w <= NumWorkers(threads) THEN Idle ELSE NoWork]]

\* handle_events takes the event arm; with State::Confirm, run goes on into
\* replace_all
KeyEvent ==
    /\ pc = "run"
    /\ Arm = "event"
    /\ \E wrap \in BOOLEAN :
        LET key == evReady[1]
            r == handle_key_event(key, wrap)
            u == update_pattern(r.pattern_input.pattern, r.ignore_case,
                                [re |-> re, search_rx |-> search_rx, subs |-> subs],
                                gens + 1)
        IN
        /\ pattern_input' = r.pattern_input
        /\ replacement_input' = r.replacement_input
        /\ editing_pattern' = r.editing_pattern
        /\ ignore_case' = r.ignore_case
        /\ multi_line' = r.multi_line
        /\ scroll' = r.scroll
        /\ IF r.update
           THEN /\ re' = u.re
                /\ search_rx' = u.search_rx
                /\ subs' = u.subs
                /\ IF u.start
                   THEN start_search(gens + 1, r.pattern_input.pattern,
                                     r.ignore_case, r.multi_line)
                   ELSE UNCHANGED <<gens, params, todo, wk>>
           ELSE /\ subs' = IF r.update_repl
                           THEN update_replacement(re, subs, r.replacement_input.pattern)
                           ELSE subs
                /\ UNCHANGED <<re, search_rx, gens, params, todo, wk>>
        /\ pc' = CASE r.state = "Exit" -> "exit"
                   [] r.state = "Panic" -> "panic"
                   [] r.state = "Confirm" -> ReplaceAllEntry(re, subs, search_rx)
                   [] OTHER -> "run"
        /\ confirmSeen' = (confirmSeen \/ ActionOf(key) = "Confirm")
        /\ recomputed' = (recomputed \/ (r.update_repl /\ re # <<>> /\ subs # <<>>))
    /\ evReady' = <<>>
    /\ ci' = 1
    /\ UNCHANGED <<envVars, keysLeft, quitNow, buf, disk, delivered, written,
                   lateFinding, ioFailed, pending, visited, results, edited>>

\* what a recv on channel g can take: 0 stands for the head of the buffer,
\* w for the message of walker thread w blocked in send
Sources(g) == IF buf[g] # <<>> THEN {0} ELSE Senders(g)
Message(g, src) == IF src = 0 THEN Head(buf[g]) ELSE FileMatchOf(g, src)
\* a send that failed is tried again
AfterSendPcRetry(ok) == IF ok THEN "idle" ELSE "send"

\* where a walker thread goes when walk returns after tx.send
AfterSendPc(ok) == IF WalkAfterSend(ok) = "Quit" THEN "quitting" ELSE "idle"

\* a successful recv on channel g from src
Recv(g, src) ==
    /\ pending' = [pending EXCEPT ![g] = pending[g] \ {Message(g, src).path}]
    /\ IF src = 0
       THEN /\ buf' = [buf EXCEPT ![g] = Tail(buf[g])]
            /\ wk' = wk
       ELSE /\ buf' = buf
            /\ wk' = [wk EXCEPT ![g][src] = [Idle EXCEPT !.pc = AfterSendPc(TRUE)]]

Delivery(msg, draining) ==
    [origin |-> msg.origin, cur |-> gens,
     valid |-> Compiles(pattern_input.pattern),
     ev |-> evReady # <<>>, drain |-> draining]

\* handle_events takes the search arm and gets Ok(sub): on_finding
SearchResult ==
    /\ pc = "run"
    /\ Arm = "search"
    /\ LET g == search_rx[1] IN
       \E src \in Sources(g) :
          /\ Recv(g, src)
          /\ subs' = on_finding(re, subs, Message(g, src), replacement_input.pattern)
          /\ delivered' = delivered \cup {Delivery(Message(g, src), FALSE)}
    /\ lateFinding' = (lateFinding \/ (recomputed /\ re # <<>>))
    /\ UNCHANGED <<pattern_input, replacement_input, editing_pattern, re,
                   ignore_case, multi_line, scroll, search_rx, envVars, pc, ci,
                   evReady, keysLeft, gens, params, todo, quitNow, disk,
                   written, confirmSeen, recomputed, ioFailed, visited, results,
                   edited>>

\* handle_events takes the search arm and gets Err(RecvError)
SearchComplete ==
    /\ pc = "run"
    /\ Arm = "search"
    /\ LET g == search_rx[1] IN Sources(g) = {} /\ Disconnected(g)
    /\ search_rx' = <<>>
    /\ UNCHANGED <<pattern_input, replacement_input, editing_pattern, re,
                   ignore_case, multi_line, scroll, subs, envVars, pc, ci,
                   evReady, keysLeft, prodVars, disk, histVars>>

\* replace_all rewriting a file from the text it had when the program started
ReadSnapshot(d, path) == Tree[path]

\* std::fs::read_to_string(path) in replace_all: the text on disk d now
ReadToString(d, path) == d[path]

\* replace_all: read_to_string, Regex::replace_all and write of one path;
\* with an I/O error (ok = FALSE) the ? operator returns the error
Rewrite(path, origin, ok, next) ==
    IF ok
    THEN /\ disk' = [disk EXCEPT ![path] =
                        ReplaceAllText(re[1], ReadToString(disk, path),
                                       replacement_input.pattern)]
         /\ written' = written \cup {[path |-> path, origin |-> origin]}
         /\ ioFailed' = ioFailed
         /\ pc' = next
    ELSE /\ disk' = disk
         /\ written' = written
         /\ ioFailed' = ioFailed \cup {path}
         /\ pc' = "failed"

\* replace_all, first loop: the next cached result
ReplaceCached ==
    /\ pc = "cached"
    /\ \E ok \in BOOLEAN :
          Rewrite(subs[ci].path, subs[ci].origin, ok,
                  IF ci < Len(subs) THEN "cached" ELSE AfterCached(search_rx))
    /\ ci' = ci + 1
    /\ UNCHANGED <<appVars, envVars, evReady, keysLeft, prodVars,
                   delivered, confirmSeen, recomputed,
                   lateFinding, pending, visited, results,
                   edited>>

\* replace_all, second loop: the next finding of the channel
DrainResult ==
    /\ pc = "drain"
    /\ LET g == search_rx[1] IN
       \E src \in Sources(g) :
          /\ Recv(g, src)
          /\ delivered' = delivered \cup {Delivery(Message(g, src), TRUE)}
          /\ \E ok \in BOOLEAN :
                Rewrite(Message(g, src).path, Message(g, src).origin, ok, "drain")
    /\ UNCHANGED <<appVars, envVars, ci, evReady, keysLeft, gens, params, todo,
                   quitNow, confirmSeen, recomputed,
                   lateFinding, visited, results, edited>>

\* replace_all, second loop: the channel is disconnected
DrainComplete ==
    /\ pc = "drain"
    /\ LET g == search_rx[1] IN Sources(g) = {} /\ Disconnected(g)
    /\ pc' = "committed"
    /\ UNCHANGED <<appVars, envVars, ci, evReady, keysLeft, prodVars, disk, histVars>>

(* ------------------------------------------------------------------ *)
(* Actions of the search threads (src/search.rs)                       *)
(* ------------------------------------------------------------------ *)
\* walk sending a FileMatch whatever the finder returned
WalkSendsAlways(lines) == TRUE

\* walk: a FileMatch is sent unless lines.is_empty()
WalkSends(lines) == lines # <<>>

\* search returning on an error of walk
OnWalkErrorAbort == "exit"

\* search: an Err of walk is logged and the walker thread takes the next
\* entry
OnWalkError == "idle"

\* walk up to tx.send, on entry e with the lines its search found: bad
\* stands for an error of the entry itself, of path.metadata() or of
\* finder.find, which the ? operator returns
WalkOutcome(e, bad, lines) ==
    IF bad THEN "Err"
    ELSE IF ~IsFile(e) THEN "Continue"
    ELSE IF WalkSends(lines) THEN "Send"
    ELSE "Continue"

\* the walker yields its next entry to walker thread w and the thread runs
\* walk on it up to tx.send: directories and files without a matching line
\* return Continue, an entry that cannot be read returns Err and has no
\* children.  Entries are handed out in file-name order; with a parallel
\* walker any thread may get the next one, the sends complete in any order,
\* and a thread looks at the quit flag before it takes an entry
Visit(g, w) ==
    /\ wk[g][w].pc = "idle"
    /\ Sequential \/ ~quitNow[g]
    /\ todo[g] # <<>>
    /\ LET e == Head(todo[g])
           bad == e \in faulty
           lines == IF IsFile(e) /\ ~bad THEN FinderFind(params[g], e, disk[e])
                    ELSE <<>>
           out == WalkOutcome(e, bad, lines)
       IN
       /\ todo' = [todo EXCEPT ![g] =
                      (IF bad THEN <<>> ELSE Children(e)) \o Tail(todo[g])]
       /\ wk' = [wk EXCEPT ![g][w] =
                    CASE out = "Send" ->
                            [pc |-> "send", entry |-> e, lines |-> lines,
                             failed |-> FALSE]
                      [] out = "Err" -> [Idle EXCEPT !.pc = OnWalkError]
                      [] OTHER -> Idle]
       /\ pending' = [pending EXCEPT ![g] =
                    IF out = "Send" THEN pending[g] \cup {e} ELSE pending[g]]
       /\ visited' = [visited EXCEPT ![g] = Append(visited[g], e)]
    /\ UNCHANGED <<appVars, envVars, pc, ci, evReady, keysLeft, gens, params,
                   quitNow, buf, disk, delivered, written, confirmSeen, recomputed,
                   lateFinding,
                   ioFailed, results, edited>>

\* tx.send returns without a receiver taking the message: an error when the
\* receiver is gone, Ok when the channel has room
Send(g, w) ==
    /\ wk[g][w].pc = "send"
    /\ IF RxAlive(g)
       THEN /\ Len(buf[g]) < cap
            /\ buf' = [buf EXCEPT ![g] = Append(buf[g], FileMatchOf(g, w))]
            /\ wk' = [wk EXCEPT ![g][w] = [Idle EXCEPT !.pc = AfterSendPc(TRUE)]]
            /\ pending' = pending
       ELSE /\ buf' = buf
            /\ wk' = [wk EXCEPT ![g][w] =
                        [Idle EXCEPT !.pc = AfterSendPc(FALSE), !.failed = TRUE]]
            /\ pending' = [pending EXCEPT ![g] = pending[g] \ {wk[g][w].entry}]
    /\ UNCHANGED <<appVars, envVars, pc, ci, evReady, keysLeft, gens, params, todo,
                   quitNow, disk, delivered, written, confirmSeen, recomputed,
                   lateFinding,
                   ioFailed, visited, results, edited>>

\* walk returned WalkState::Quit: search returns Ok when sequential, the
\* walker thread sets the quit flag when parallel
Quit(g, w) ==
    /\ wk[g][w].pc = "quitting"
    /\ IF Sequential
       THEN /\ wk' = [wk EXCEPT ![g][w] = NoWork]
            /\ quitNow' = quitNow
       ELSE /\ wk' = [wk EXCEPT ![g][w] = Idle]
            /\ quitNow' = [quitNow EXCEPT ![g] = TRUE]
    /\ UNCHANGED <<appVars, envVars, pc, ci, evReady, keysLeft, gens, params, todo,
                   buf, disk, histVars>>

\* a walker thread ends: the iterator is exhausted, or (parallel) the quit
\* flag is set or no entry is queued and no thread is working on one
WorkerExit(g, w) ==
    /\ wk[g][w].pc = "idle"
    /\ IF Sequential THEN todo[g] = <<>>
       ELSE \/ quitNow[g]
            \/ /\ todo[g] = <<>>
               /\ \A v \in Workers : wk[g][v].pc \in {"idle", "exit"}
    /\ wk' = [wk EXCEPT ![g][w] = NoWork]
    /\ UNCHANGED <<appVars, envVars, pc, ci, evReady, keysLeft, gens, params, todo,
                   quitNow, buf, disk, histVars>>

Next ==
    \/ \E k \in AllKeys : UserKey(k)
    \/ KeyEvent
    \/ SearchResult
    \/ SearchComplete
    \/ ReplaceCached
    \/ DrainResult
    \/ DrainComplete
    \/ \E g \in Gens, w \in Workers :
          \/ Visit(g, w)
          \/ Send(g, w)
          \/ Quit(g, w)
          \/ WorkerExit(g, w)

Spec == Init /\ [][Next]_vars

\* the steps of walker thread w of search thread g
WalkerStep(g, w) == Visit(g, w) \/ Send(g, w) \/ Quit(g, w) \/ WorkerExit(g, w)

\* the keys of a session that types a pattern, commits or leaves: the first
\* key starts a search, a later one supersedes it, commits or exits
FairKeys == {"a", "enter", "esc"}

FairInit ==
    /\ pattern_input = NewLineInput
    /\ editing_pattern = TRUE
    /\ re = <<>>
    /\ multi_line = FALSE
    /\ scroll = 0
    /\ subs = <<>>
    /\ search_rx = <<>>
    /\ pc = "run"
    /\ ci = 1
    /\ evReady = <<>>
    /\ keysLeft = FairKeyPresses
    /\ gens = 0
    /\ params = [g \in Gens |-> NoParams]
    /\ todo = [g \in Gens |-> <<>>]
    /\ quitNow = [g \in Gens |-> FALSE]
    /\ wk = [g \in Gens |-> [w \in Workers |-> NoWork]]
    /\ buf = [g \in Gens |-> <<>>]
    /\ disk = Tree
    /\ delivered = {}
    /\ written = {}
    /\ confirmSeen = FALSE
    /\ recomputed = FALSE
    /\ lateFinding = FALSE
    /\ ioFailed = {}
    /\ pending = [g \in Gens |-> {}]
    /\ visited = [g \in Gens |-> <<>>]
    /\ results = <<>>
    /\ edited = [f \in Files |-> <<>>]
    /\ faulty = {}
    /\ cap = Capacity
    /\ replacement_input = NewLineInput
    /\ ignore_case = FALSE
    /\ threads \in {0, 1}
    /\ keys = FairKeys
    /\ fx = NoCall
    /\ editsLeft = 0
    /\ paths = <<Root>>

\* fair scheduling: every walker thread that can take a step takes one, and
\* so does the main thread inside replace_all; nothing makes the user press
\* a key or the main thread of a running session ask for another result
FairSpec ==
    /\ FairInit /\ [][Next]_vars
    /\ \A g \in Gens, w \in Workers : WF_vars(WalkerStep(g, w))
    /\ WF_vars(ReplaceCached \/ DrainResult \/ DrainComplete)

(* ------------------------------------------------------------------ *)
(* A session started with --ignore-case and a sequential walker, in    *)
(* which the user, having typed a replacement (Tab, the text, Tab),    *)
(* types a pattern, scrolls and confirms                               *)
(* ------------------------------------------------------------------ *)
SessionKeys == {"a", "c-n", "c-p", "enter"}
SessionReplacements == {<<>>, <<Group0, "a">>}

SessionInit ==
    /\ Started
    /\ replacement_input \in
          {[pattern |-> rp, cursor_pos |-> Len(rp)] : rp \in SessionReplacements}
    /\ ignore_case = TRUE
    /\ threads = 1
    /\ keys = SessionKeys
    /\ fx = NoCall
    /\ editsLeft = 0
    /\ paths = <<Root>>

SessionSpec == SessionInit /\ [][Next]_vars

(* ------------------------------------------------------------------ *)
(* A session with a sequential walker and the replacement ${0}a typed  *)
(* beforehand, during which another process writes to the files        *)
(* ------------------------------------------------------------------ *)
EditKeys == {"a", "enter"}
EditFiles == {1, 3}
EditTexts == {<<"a", "b", "\n">>, <<"b", "\n">>}

EditInit ==
    /\ Started
    /\ replacement_input = [pattern |-> <<Group0, "a">>, cursor_pos |-> 2]
    /\ ignore_case = FALSE
    /\ threads = 1
    /\ keys = EditKeys
    /\ fx = NoCall
    /\ editsLeft = MaxEdits
    /\ paths = <<Root>>

\* another process writes text t to file f, before replace_all has rewritten
\* the file
OtherProcessWrites(f, t) ==
    /\ pc \in {"run", "cached", "drain"}
    /\ editsLeft > 0
    /\ \A wr \in written : wr.path # f
    /\ disk[f] # t
    /\ disk' = [disk EXCEPT ![f] = t]
    /\ edited' = [edited EXCEPT ![f] = <<t>>]
    /\ editsLeft' = editsLeft - 1
    /\ UNCHANGED <<appVars, threads, keys, fx, faulty, cap, paths, pc, ci, evReady,
                   keysLeft, prodVars, delivered, written, confirmSeen,
                   recomputed, lateFinding, ioFailed, pending, visited, results>>

EditNext ==
    \/ Next
    \/ \E f \in EditFiles, t \in EditTexts : OtherProcessWrites(f, t)

EditSpec == EditInit /\ [][EditNext]_vars

(* ------------------------------------------------------------------ *)
(* search called on its own, the way the tests of src/search.rs call   *)
(* it: an unbounded channel, search(finder, params, tx) run to its     *)
(* end, then rx.iter().collect().  The receiver outlives the call, so   *)
(* no send fails and walk never returns Quit.                          *)
(* ------------------------------------------------------------------ *)
\* the files of the tests: main.py, main.rs, a file of no language, and two
\* more sources
\*   1 (py)  f(g(x))      2 (rs)  x               3  f(x)
\*           g(x)                 fn f(){g(x)}
\*   4 (py)  x            5 (rs)  fn g(){x}
TestTree == << <<"f", "(", "g", "(", "x", ")", ")", "\n", "g", "(", "x", ")", "\n">>,
               <<"x", "\n", "fn", " ", "f", "(", ")", "{", "g", "(", "x", ")", "}", "\n">>,
               <<"f", "(", "x", ")", "\n">>,
               <<"x", "\n">>,
               <<"fn", " ", "g", "(", ")", "{", "x", "}", "\n">> >>

\* unbounded(): never full, as no file is sent twice
Unbounded == Len(Tree)

TestPatterns == {<<>>, <<"g">>, CallPattern, FnPattern}
\* the entries that cannot be read: none, the root path, one file
TestFaults == {{}, {Root}, {2}}

SearchInit ==
    /\ pattern_input = NewLineInput
    /\ replacement_input = NewLineInput
    /\ editing_pattern = TRUE
    /\ re = <<>>
    /\ ignore_case = FALSE
    /\ multi_line = FALSE
    /\ scroll = 0
    /\ subs = <<>>
    /\ search_rx = <<1>>
    /\ threads \in {0, 1}
    /\ keys = {}
    /\ fx = NoCall
    /\ faulty \in TestFaults
    /\ cap = Unbounded
    /\ editsLeft = 0
    /\ paths = <<Root>>
    /\ pc = "search"
    /\ ci = 1
    /\ evReady = <<>>
    /\ keysLeft = 0
    /\ gens = 1
    /\ \E pat \in TestPatterns :
          params = [g \in Gens |->
                      IF g = 1
                      THEN [pattern |-> pat, ignore_case |-> FALSE,
                            multi_line |-> FALSE]
                      ELSE NoParams]
    /\ todo = [g \in Gens |-> IF g = 1 THEN <<Root>> ELSE <<>>]
    /\ quitNow = [g \in Gens |-> FALSE]
    /\ wk = [g \in Gens |-> [w \in Workers |->
                IF g = 1 /\ w <= NumWorkers(threads) THEN Idle ELSE NoWork]]
    /\ buf = [g \in Gens |-> <<>>]
    /\ disk = TestTree
    /\ delivered = {}
    /\ written = {}
    /\ confirmSeen = FALSE
    /\ recomputed = FALSE
    /\ lateFinding = FALSE
    /\ ioFailed = {}
    /\ pending = [g \in Gens |-> {}]
    /\ visited = [g \in Gens |-> <<>>]
    /\ results = <<>>
    /\ edited = [f \in Files |-> <<>>]

\* search: what it returns once the walk has ended, with or without errors
\* of walk
SearchReturn(errors) == "Ok"

\* search returns to the test
SearchReturns ==
    /\ pc = "search"
    /\ Disconnected(1)
    /\ pc' = "collect"
    /\ fx' = [fn |-> "search",
              result |-> SearchReturn(\E e \in faulty :
                                         \E i \in DOMAIN visited[1] : visited[1][i] = e)]
    /\ UNCHANGED <<appVars, threads, keys, faulty, cap, editsLeft, paths, ci, evReady,
                   keysLeft, prodVars, disk, histVars>>

\* rx.iter().collect(): the next FileMatch of the channel
Collect ==
    /\ pc = "collect"
    /\ Sources(1) # {}
    /\ \E src \in Sources(1) :
          /\ Recv(1, src)
          /\ results' = Append(results, Message(1, src))
    /\ UNCHANGED <<appVars, envVars, pc, ci, evReady, keysLeft, gens, params, todo,
                   quitNow, disk, delivered, written, confirmSeen, recomputed,
                   lateFinding,
                   ioFailed, visited, edited>>

\* rx.iter().collect(): the channel is empty and disconnected
CollectEnd ==
    /\ pc = "collect"
    /\ Sources(1) = {}
    /\ Disconnected(1)
    /\ pc' = "collected"
    /\ UNCHANGED <<appVars, envVars, ci, evReady, keysLeft, prodVars, disk, histVars>>

SearchNext ==
    \/ \E g \in Gens, w \in Workers :
          \/ Visit(g, w)
          \/ Send(g, w)
          \/ WorkerExit(g, w)
    \/ SearchReturns
    \/ Collect
    \/ CollectEnd

SearchSpec == SearchInit /\ [][SearchNext]_vars

(* ------------------------------------------------------------------ *)
(* lasr started with several paths: the walker of the ignore crate     *)
(* walks each path it was given, one after the other, whether or not   *)
(* an earlier path contains it                                         *)
(* ------------------------------------------------------------------ *)
RootKeys == {"a", "enter"}

\* lasr .   |   lasr . a.txt   |   lasr aa.txt .
RootPaths == {<<Root>>, <<Root, 1>>, <<4, Root>>}

RootsInit ==
    /\ Started
    /\ replacement_input = [pattern |-> <<Group0, "a">>, cursor_pos |-> 2]
    /\ ignore_case = FALSE
    /\ threads \in {0, 1}
    /\ keys = RootKeys
    /\ fx = NoCall
    /\ editsLeft = 0
    /\ paths \in RootPaths

RootsSpec == RootsInit /\ [][Next]_vars

(* ------------------------------------------------------------------ *)
(* Finder::new and the preview of a file, called on their own: fx      *)
(* holds the arguments, then the call with its result                  *)
(* ------------------------------------------------------------------ *)
FinderArgs ==
    [fn : {"arg"},
     pattern : UNION {[1..n -> FinderAlphabet] : n \in 0..MaxArg},
     ignore_case : BOOLEAN,
     replacement : {<<>>, <<"x">>, <<Group0, "x">>},
     file : Files]

\* the sources handed to AstFinder::replace: the files of the search tests
\* and two calls on two lines, as in tests::test_ast_replace
AstSources ==
    {TestTree[1], TestTree[2], TestTree[3],
     <<"f", "(", "x", ")", "\n", "g", "(", "x", ")", "\n">>}

AstArgs ==
    [fn : {"ast arg"},
     pattern : {CallPattern, FnPattern},
     path : {1, 2, 3},
     text : AstSources,
     replacement : {AddArgument}]

\* patterns with and without the end anchor, on files that end with and
\* without a line terminator
RegexArgs ==
    [fn : {"regex arg"},
     pattern : {<<"a">>, <<"a", "$">>, <<"b", "$">>, <<"$">>},
     ignore_case : BOOLEAN,
     multi_line : BOOLEAN,
     text : {<<"a", "\n", "b", "\n">>, <<"b", "\n", "a">>, <<"A", "\n">>,
             <<"a", "b", "\n", "a", "\n">>}]

FinderInit ==
    /\ Started
    /\ replacement_input = NewLineInput
    /\ ignore_case = FALSE
    /\ threads = 1
    /\ keys = {}
    /\ fx \in FinderArgs \cup AstArgs \cup RegexArgs
    /\ editsLeft = 0
    /\ paths = <<Root>>

\* Finder::new(pattern, params)
NewFinder ==
    /\ fx.fn = "arg"
    /\ fx' = [fn |-> "Finder::new", pattern |-> fx.pattern,
              ignore_case |-> fx.ignore_case, result |-> FinderNew(fx.pattern)]
    /\ UNCHANGED <<appVars, threads, keys, faulty, cap, editsLeft, paths, pc, ci, evReady,
                   keysLeft, prodVars, disk, histVars>>

\* a file searched with the Regex finder of the pattern, its FileMatch turned
\* into a FileSubstitution (on_finding), and the text replace_all writes for
\* the file
Preview ==
    /\ fx.fn = "arg"
    /\ FinderNew(fx.pattern) = "Regex"
    /\ "$" \notin {fx.pattern[i] : i \in 1..Len(fx.pattern)}
    /\ LET r == [pattern |-> fx.pattern, ignore_case |-> fx.ignore_case]
           lines == find([pattern |-> fx.pattern, ignore_case |-> fx.ignore_case,
                          multi_line |-> FALSE], Tree[fx.file])
           sub == FileSubstitutionNew([path |-> fx.file, lines |-> lines, origin |-> 0],
                                      r, fx.replacement)
       IN fx' = [fn |-> "preview", pattern |-> fx.pattern,
                 ignore_case |-> fx.ignore_case, replacement |-> fx.replacement,
                 file |-> fx.file, lines |-> lines, sub |-> sub,
                 commit |-> ReplaceAllText(r, Tree[fx.file], fx.replacement)]
    /\ UNCHANGED <<appVars, threads, keys, faulty, cap, editsLeft, paths, pc, ci, evReady,
                   keysLeft, prodVars, disk, histVars>>

\* finder.replace(path, text, replacement) of an Ast finder
AstFinderReplace ==
    /\ fx.fn = "ast arg"
    /\ \E nested \in BOOLEAN :
          fx' = [fn |-> "AstFinder::replace", pattern |-> fx.pattern,
                 path |-> fx.path, text |-> fx.text,
                 replacement |-> fx.replacement,
                 result |-> AstReplace(fx.pattern, fx.path, fx.text,
                                       fx.replacement, nested)]
    /\ UNCHANGED <<appVars, threads, keys, faulty, cap, editsLeft, paths, pc, ci, evReady,
                   keysLeft, prodVars, disk, histVars>>

\* RegexFinder::new(pattern, params) and find on a file of the given text
RegexFinderFind ==
    /\ fx.fn = "regex arg"
    /\ \E by_line \in BOOLEAN :
          fx' = [fn |-> "RegexFinder::find", pattern |-> fx.pattern,
                 ignore_case |-> fx.ignore_case, multi_line |-> fx.multi_line,
                 text |-> fx.text,
                 lines |-> RegexFind([pattern |-> fx.pattern,
                                      ignore_case |-> fx.ignore_case,
                                      multi_line |-> fx.multi_line],
                                     fx.text, by_line)]
    /\ UNCHANGED <<appVars, threads, keys, faulty, cap, editsLeft, paths, pc, ci,
                   evReady, keysLeft, prodVars, disk, histVars>>

FinderNext == NewFinder \/ Preview \/ AstFinderReplace \/ RegexFinderFind

FinderSpec == FinderInit /\ [][FinderNext]_vars

(* ------------------------------------------------------------------ *)
(* A LineInput driven on its own, as the tests of src/input.rs drive   *)
(* it: pattern_input is the LineInput, fx the last call of             *)
(* handle_key_event with the input before it and whether it returned   *)
(* Some                                                                *)
(* ------------------------------------------------------------------ *)
\* c-x is a character with the control modifier that no action is bound to;
\* tab and enter are bound to actions the LineInput ignores
InputKeys == {"a", "(", " ", "left", "right", "home", "end", "backspace", "c-d",
              "c-w", "c-k", "c-u", "c-x", "tab", "enter"}

InputInit ==
    /\ Started
    /\ replacement_input = NewLineInput
    /\ ignore_case = FALSE
    /\ threads = 1
    /\ keys = InputKeys
    /\ fx = NoCall
    /\ editsLeft = 0
    /\ paths = <<Root>>

\* li.handle_key_event(key, &config.keys)
InputKey ==
    /\ \E key \in keys :
          /\ key \in CharKeys => Len(pattern_input.pattern) < MaxLine
          /\ LET r == LineInputKey(pattern_input, key) IN
             /\ pattern_input' = r.li
             /\ fx' = [fn |-> "LineInput::handle_key_event", key |-> key,
                       before |-> pattern_input, some |-> r.changed]
    /\ UNCHANGED <<replacement_input, editing_pattern, re, ignore_case, multi_line,
                   scroll, subs, search_rx, threads, keys, faulty, cap, editsLeft, paths,
                   pc, ci, evReady, keysLeft, prodVars, disk, histVars>>

InputNext == InputKey

InputSpec == InputInit /\ [][InputNext]_vars

(* ------------------------------------------------------------------ *)
(* Loading a configuration file (src/config.rs, src/main.rs): fx holds *)
(* the file, then the call with the key bindings of the Config it      *)
(* returned                                                            *)
(* ------------------------------------------------------------------ *)
\* the files: without a [keys] table, or with one that binds some of c-x
\* (unbound by default), enter, c-s and tab to exit or noop
ConfigFiles ==
    {[has_keys |-> FALSE, keys |-> <<>>]} \cup
    {[has_keys |-> TRUE, keys |-> f] :
        f \in UNION {[S -> {"Exit", "Noop"}] : S \in SUBSET {"c-x", "enter", "c-s", "tab"}}}

\* toml::from_str::<Config>: Config is #[serde(default)], a field the file
\* leaves out takes its value from Config::default(), a field it has is
\* taken from the file alone
toml_from_str(file) == IF file.has_keys THEN file.keys ELSE KeyMap

\* Config::from_str: the parsed keys, and every default binding of a key
\* they leave out (entry(k).or_insert(v))
ConfigFromStr(file) ==
    LET c == toml_from_str(file) IN
    [k \in DOMAIN c \cup DOMAIN KeyMap |-> IF k \in DOMAIN c THEN c[k] ELSE KeyMap[k]]

\* load_config with the path of a file that exists and parses
load_config(file) == toml_from_str(file)

ConfigInit ==
    /\ Started
    /\ replacement_input = NewLineInput
    /\ ignore_case = FALSE
    /\ threads = 1
    /\ keys = {}
    /\ fx \in [fn : {"file"}, file : ConfigFiles]
    /\ editsLeft = 0
    /\ paths = <<Root>>

\* t.parse::<Config>() as in tests::test_config_valid
ParseConfig ==
    /\ fx.fn = "file"
    /\ fx' = [fn |-> "Config::from_str", file |-> fx.file,
              keys |-> ConfigFromStr(fx.file)]
    /\ UNCHANGED <<appVars, threads, keys, faulty, cap, editsLeft, paths, pc, ci, evReady,
                   keysLeft, prodVars, disk, histVars>>

\* load_config(cli.config_path) in main
LoadConfig ==
    /\ fx.fn = "file"
    /\ fx' = [fn |-> "load_config", file |-> fx.file, keys |-> load_config(fx.file)]
    /\ UNCHANGED <<appVars, threads, keys, faulty, cap, editsLeft, paths, pc, ci, evReady,
                   keysLeft, prodVars, disk, histVars>>

ConfigNext == ParseConfig \/ LoadConfig

ConfigSpec == ConfigInit /\ [][ConfigNext]_vars

(* ------------------------------------------------------------------ *)
(* Properties                                                          *)
(* ------------------------------------------------------------------ *)
WrittenPaths == {x.path : x \in written}
\* a send of search thread g has failed: the thread that saw it is on its
\* way out, or (parallel) has set the quit flag
SendHasFailed(g) == quitNow[g] \/ \E w \in Workers : wk[g][w].failed

\* C1: every FileMatch the main thread receives comes from the search
\* thread of the pattern accepted last: none from a superseded walk
Supersession == \A d \in delivered : d.origin = d.cur

\* a result of the second pattern has been received while a walker thread
\* of the first search was still running
SupersessionWitness ==
    /\ gens = 2
    /\ \E d \in delivered : d.cur = 2
    /\ \E w \in Workers : wk[1][w].pc # "exit"

\* C2: the channel never holds a message, and every result found and not
\* yet received is the message of a walker thread blocked in send: a
\* thread does not go past its send until the main thread receives
Backpressure ==
    \A g \in Gens :
        /\ buf[g] = <<>>
        /\ pending[g] = {wk[g][w].entry : w \in Senders(g)}
        /\ Cardinality(pending[g]) <= NumWorkers(threads)

\* the main thread has received a result, the next one is blocked in send
\* and the walk has entries left
BackpressureWitness ==
    \E g \in Gens :
        /\ RxAlive(g)
        /\ subs # <<>>
        /\ Senders(g) # {}
        /\ todo[g] # <<>>

\* C3 as stated: once a send of a search thread has failed, that search
\* thread takes no further entry of the walk
CancelStopsEverySearch ==
    [][\A g \in Gens : SendHasFailed(g) => todo'[g] = todo[g]]_vars

\* C3 amended: a send fails only when the receiver is gone, and the walker
\* thread whose send failed is returning Quit or, with the quit flag set,
\* about to end; a sequential walk has then no other thread
CancelQuits ==
    \A g \in Gens : \A w \in Workers :
        wk[g][w].failed =>
            /\ ~RxAlive(g)
            /\ \/ wk[g][w].pc = "quitting"
               \/ wk[g][w].pc = "idle" /\ quitNow[g]
            /\ Sequential => \A v \in Workers \ {w} : wk[g][v].pc = "exit"

\* a send has failed while the walk had entries left
CancelQuitsWitness ==
    \E g \in Gens : \E w \in Workers : wk[g][w].failed /\ todo[g] # <<>>

\* C4: when replace_all has returned Ok, every file with a line matching
\* the accepted pattern has been written
CommitDrains ==
    (pc = "committed" /\ re # <<>>) =>
        \A f \in Files : find(params[gens], Tree[f]) # <<>> => f \in WrittenPaths

\* replace_all returned Ok after writing a file whose FileMatch it took
\* from the channel itself
CommitDrainsWitness ==
    /\ pc = "committed"
    /\ written # {}
    /\ \E d \in delivered : d.drain

\* C5: every file written was recorded by the search thread of the pattern
\* accepted last
CommitsCurrentOnly == \A x \in written : x.origin = gens

\* a commit after a second pattern, the first search having delivered
CommitsCurrentOnlyWitness ==
    /\ gens = 2
    /\ written # {}
    /\ \E d \in delivered : d.origin = 1

InputPriority == \A d \in delivered : ~d.drain => ~d.ev

\* an input event and a search result are both ready for handle_events
InputPriorityWitness ==
    /\ pc = "run"
    /\ evReady # <<>>
    /\ SearchReady

\* C8 as stated: when replace_all has returned, every cached result whose
\* I/O did not fail has been written
CommitContinuesAfterFailure ==
    pc \in {"committed", "failed"} =>
        \A i \in 1..Len(subs) :
            subs[i].path \notin ioFailed => subs[i].path \in WrittenPaths

\* C9 as stated: no FileMatch is received while the pattern text does not
\* compile
PausedWhileInvalid == \A d \in delivered : d.valid

\* C10 as stated: a step that changes the pattern text leaves no cached
\* result
ClearedOnEveryEdit ==
    [][pattern_input.pattern' # pattern_input.pattern => subs' = <<>>]_vars

\* C11 as stated: no search thread is started for the empty pattern text
NoWalkForEmptyPattern == \A g \in 1..gens : params[g].pattern # <<>>

\* C12: every FileMatch a walker thread sends, and every one cached or being
\* sent, has at least one line
NoEmptyFileMatch ==
    /\ \A g \in Gens : \A w \in Workers :
          wk[g][w].pc = "send" => wk[g][w].lines # <<>>
    /\ \A i \in 1..Len(subs) : subs[i].subs # <<>>

\* a sequential walk is sending the FileMatch of a file that comes after a
\* file without a matching line
NoEmptyFileMatchWitness ==
    /\ Sequential
    /\ \E g \in Gens : \E w \in Workers :
          /\ wk[g][w].pc = "send"
          /\ \E f \in Files : f < wk[g][w].entry /\ find(params[g], disk[f]) = <<>>

\* the files with a line matching the pattern of search thread g
MatchingFiles(g) == {f \in Files : find(params[g], Tree[f]) # <<>>}

\* C13: when the main thread has seen the disconnect of the last search
\* (search_rx is None again), the walk is exhausted, every walker thread has
\* ended, every result of the walk has been received, once each and before
\* the disconnect, and the loop of run goes on taking input events
Completion ==
    (gens > 0 /\ search_rx = <<>>) =>
        /\ todo[gens] = <<>>
        /\ \A w \in Workers : wk[gens][w].pc = "exit"
        /\ pending[gens] = {}
        /\ {subs[i].path : i \in 1..Len(subs)} = MatchingFiles(gens)
        /\ Len(subs) = Cardinality(MatchingFiles(gens))
        /\ (pc = "run" /\ evReady # <<>>) => Arm = "event"

\* the disconnect has been seen after results were received, and a key
\* press is waiting to be handled
CompletionWitness ==
    /\ pc = "run"
    /\ gens > 0
    /\ search_rx = <<>>
    /\ Len(subs) >= 2
    /\ evReady # <<>>

\* the bound of the draw with the given cached results and scroll offset:
\* result areas drawn plus SEARCH_BUFFER plus the scroll offset
DrawBound(ss, sc) == AreasFrom(ss, sc + 1, Height) + SEARCH_BUFFER + sc

\* C14 as stated: at every draw the number of cached results is at most the
\* number of result areas drawn plus SEARCH_BUFFER plus the scroll offset
CachedWithinBound == pc = "run" => Len(subs) <= DrawBound(subs, scroll)

\* C14 amended: a result is received by handle_events only in a step whose
\* need_more was true, so that the number of cached results after the step
\* is at most the bound of the draw that preceded it
PullsOnlyWhenNeeded ==
    [][Len(subs') > Len(subs) =>
          /\ Len(subs) < DrawBound(subs, scroll)
          /\ Len(subs') <= DrawBound(subs, scroll)]_vars

\* the draw reported that no more results are needed while a walker thread
\* is blocked sending the next one
PullsOnlyWhenNeededWitness ==
    /\ pc = "run"
    /\ search_rx # <<>>
    /\ ~NeedMore(subs, scroll)
    /\ Senders(search_rx[1]) # {}

\* a cached result without the replacement field of its matches
Scanned(fs) ==
    [path |-> fs.path,
     subs |-> [k \in DOMAIN fs.subs |->
                 [start_line |-> fs.subs[k].start_line,
                  line_count |-> fs.subs[k].line_count,
                  text |-> fs.subs[k].text,
                  ranges |-> [m \in DOMAIN fs.subs[k].matches |->
                                fs.subs[k].matches[m].range]]]]

\* C15: a step that edits the replacement string leaves the receiver, the
\* compiled regex, the search threads, the files and the paths, texts and
\* ranges of the cached results as they were, and sets every cached
\* replacement to the one for the new string
ReplacementEditFrame ==
    [][replacement_input'.pattern # replacement_input.pattern =>
          /\ search_rx' = search_rx
          /\ re' = re
          /\ prodVars' = prodVars
          /\ disk' = disk
          /\ written' = written
          /\ delivered' = delivered
          /\ [i \in DOMAIN subs' |-> Scanned(subs'[i])]
                = [i \in DOMAIN subs |-> Scanned(subs[i])]
          /\ \A i \in DOMAIN subs' : \A k \in DOMAIN subs'[i].subs :
                \A m \in DOMAIN subs'[i].subs[k].matches :
                    subs'[i].subs[k].matches[m].replacement =
                        MatchReplacement(re[1], subs[i].subs[k].text,
                                         subs[i].subs[k].matches[m].range,
                                         replacement_input'.pattern)]_vars

\* the replacement was edited with results cached, and the search of the
\* pattern is still running with a walker thread blocked in send
ReplacementEditFrameWitness ==
    /\ recomputed
    /\ replacement_input.pattern # <<>>
    /\ subs # <<>>
    /\ search_rx # <<>>
    /\ Senders(search_rx[1]) # {}

\* the text of a cached line with every previewed range replaced by its
\* previewed replacement, from match k on; pos is the end of the match before
RECURSIVE ApplyMatches(_, _, _, _)
ApplyMatches(text, matches, k, pos) ==
    IF k > Len(matches) THEN SubSeq(text, pos + 1, Len(text))
    ELSE SubSeq(text, pos + 1, matches[k].range.start)
         \o matches[k].replacement
         \o ApplyMatches(text, matches, k + 1, matches[k].range.end)

SubstitutedText(ts) == ApplyMatches(ts.text, ts.matches, 1, 0)

\* the text of a file with each cached line replaced by its preview
RECURSIVE SubstitutedFrom(_, _, _)
SubstitutedFrom(lines, fs, n) ==
    IF n > Len(lines) THEN <<>>
    ELSE LET hits == {k \in DOMAIN fs.subs : fs.subs[k].start_line = lines[n].number}
         IN (IF hits = {} THEN lines[n].text
             ELSE SubstitutedText(fs.subs[CHOOSE k \in hits : TRUE]))
            \o SubstitutedFrom(lines, fs, n + 1)

SubstitutedFile(t, fs) == SubstitutedFrom(TextLines(t), fs, 1)

\* C16 as stated: for every file and pattern, the text of the file with the
\* previewed ranges replaced by the previewed replacements is the text
\* replace_all writes
PreviewLossless ==
    fx.fn = "preview" => SubstitutedFile(Tree[fx.file], fx.sub) = fx.commit

\* C17 as stated: a file is written only when the walk of the accepted
\* pattern is exhausted and all its walker threads have ended
WritesAfterSearchEnds ==
    written # {} =>
        /\ todo[gens] = <<>>
        /\ \A w \in Workers : wk[gens][w].pc = "exit"

\* C18: the App holds at most one receiver, the only live receiver is the
\* one of the search thread started last, and no result is cached from
\* another search thread
OneSession ==
    /\ Len(search_rx) <= 1
    /\ Cardinality({g \in Gens : RxAlive(g)}) <= 1
    /\ \A g \in Gens : RxAlive(g) => g = gens
    /\ \A i \in 1..Len(subs) : subs[i].origin = gens

\* a second pattern was accepted: its receiver is live and a walker thread
\* of the first search found its receiver dropped
OneSessionWitness ==
    /\ gens = 2
    /\ RxAlive(2)
    /\ subs # <<>>
    /\ \E w \in Workers : wk[1][w].failed

\* the pattern contains a metavariable token, $ followed by an uppercase
\* letter or underscore and then uppercase letters, digits or underscores,
\* or the token $$$
HasAstToken(p) ==
    \/ \E i \in 1..Len(p) : \E j \in (i + 1)..Len(p) :
          /\ p[i] = "$"
          /\ p[i + 1] \in Upper \cup {"_"}
          /\ \A k \in (i + 2)..j : p[k] \in Upper \cup Digits \cup {"_"}
    \/ \E i \in 1..(Len(p) - 2) : SubSeq(p, i, i + 2) = <<"$", "$", "$">>

\* C19: Finder::new returns the Ast finder for every pattern with a
\* metavariable or $$$ token, whether or not it is a valid regex; for any
\* other pattern the Regex finder if it compiles and no Finder if not
FinderSelection ==
    fx.fn = "Finder::new" =>
        fx.result = (IF HasAstToken(fx.pattern) THEN "Ast"
                     ELSE IF Compiles(fx.pattern) THEN "Regex" ELSE "None")

\* Finder::new returned the Ast finder for $$$, which is also a valid regex
FinderSelectionWitness ==
    /\ fx.fn = "Finder::new"
    /\ fx.pattern = <<"$", "$", "$">>
    /\ Compiles(fx.pattern)
    /\ fx.result = "Ast"

\* C20: when replace_all has returned Ok, every file with a line matching
\* the pattern holds its text with every match replaced by the expanded
\* replacement string, and every other file holds its text unchanged; the
\* last conjunct spells the texts out for pattern aa, ignoring case, and
\* replacement ${0}a
CommitContent ==
    pc = "committed" =>
        /\ re = <<>> => disk = Tree
        /\ re # <<>> =>
              \A f \in Files :
                  disk[f] = IF f \in MatchingFiles(gens)
                            THEN ReplaceAllText(re[1], Tree[f], replacement_input.pattern)
                            ELSE Tree[f]
        /\ (/\ re = <<[pattern |-> <<"a", "a">>, ignore_case |-> TRUE]>>
            /\ replacement_input.pattern = <<Group0, "a">>) =>
              disk = << <<"a", "\n", "b", "\n">>,
                        <<"A", "a", "a", "\n">>,
                        <<"A", "\n">>,
                        <<"a", "a", "a", "\n">>,
                        <<"A", "\n">> >>

\* replace_all returned Ok for pattern aa, ignoring case, and replacement
\* ${0}a: the two files with a match were rewritten, one from the cache and
\* one from the channel, and the files without a match were not written
CommitContentWitness ==
    /\ pc = "committed"
    /\ re = <<[pattern |-> <<"a", "a">>, ignore_case |-> TRUE]>>
    /\ replacement_input.pattern = <<Group0, "a">>
    /\ WrittenPaths = {2, 4}
    /\ \E d \in delivered : d.drain
    /\ \E d \in delivered : ~d.drain

(* ------------------------------------------------------------------ *)
(* C21: Commit rewrites each file from its contents on disk at commit  *)
(* time, not from the text cached at search time: a file that another  *)
(* process changed before it is rewritten holds the replacement        *)
(* applied to the changed contents, and the parts of the change that   *)
(* do not match are preserved.                                         *)
(* ------------------------------------------------------------------ *)
\* after a commit that returned Ok, every file another process wrote holds
\* that text with its matches replaced if the commit rewrote the file, and
\* that text as written otherwise; for pattern a and replacement ${0}a a
\* file changed to ab holds aab
CommitReadsDisk ==
    (pc = "committed" /\ re # <<>>) =>
        /\ \A f \in Files :
              edited[f] # <<>> =>
                  disk[f] = IF f \in WrittenPaths
                            THEN ReplaceAllText(re[1], edited[f][1],
                                                replacement_input.pattern)
                            ELSE edited[f][1]
        /\ (/\ edited[1] = << <<"a", "b", "\n">> >>
            /\ 1 \in WrittenPaths
            /\ re[1].pattern = <<"a">>) =>
              disk[1] = <<"a", "a", "b", "\n">>

\* file 1 was searched and cached with its first text, then changed by
\* another process to ab, then rewritten by the commit
CommitReadsDiskWitness ==
    /\ pc = "committed"
    /\ re # <<>> /\ re[1].pattern = <<"a">>
    /\ edited[1] = << <<"a", "b", "\n">> >>
    /\ 1 \in WrittenPaths
    /\ \E i \in DOMAIN subs :
          /\ subs[i].path = 1
          /\ subs[i].subs[1].text = <<"a", "\n">>

(* ------------------------------------------------------------------ *)
(* C22: an error of walk on one entry never aborts the walk: the entry *)
(* is skipped and every other entry is still visited, with one walker  *)
(* thread and with several.                                            *)
(* ------------------------------------------------------------------ *)
VisitedSet(g) == {visited[g][i] : i \in DOMAIN visited[g]}

\* once search has returned, walk has been called on every entry below a
\* readable root, whichever entries failed, and no FileMatch was sent for an
\* entry that failed
WalkNotAborted ==
    pc \in {"collect", "collected"} =>
        /\ VisitedSet(1) = IF Root \in faulty THEN {Root} ELSE {Root} \cup Files
        /\ \A i \in DOMAIN results : results[i].path \notin faulty
        /\ \A i \in DOMAIN buf[1] : buf[1][i].path \notin faulty

\* file 2 could not be read, and a file visited after it was reported
WalkNotAbortedWitness ==
    /\ pc = "collected"
    /\ faulty = {2}
    /\ \E i \in DOMAIN results : results[i].path = 5
    /\ \E i, j \in DOMAIN visited[1] :
          i < j /\ visited[1][i] = 2 /\ visited[1][j] = 5

(* ------------------------------------------------------------------ *)
(* C23: a completely invalid root path is a fatal setup error: search  *)
(* reports an error to its caller before any file is walked, instead   *)
(* of completing as an empty successful walk.                          *)
(* ------------------------------------------------------------------ *)
\* when the root path cannot be read, search returns Err
InvalidRootIsFatal ==
    (fx.fn = "search" /\ Root \in faulty) => fx.result = "Err"

(* ------------------------------------------------------------------ *)
(* C24: structural matching skips files one by one: for a file of no   *)
(* known language, or of a language in which the pattern does not     *)
(* compile, AstFinder::find returns an empty result, no FileMatch is   *)
(* emitted for the file and the walk goes on, so that the files of a   *)
(* language in which the pattern is valid are still reported.          *)
(* ------------------------------------------------------------------ *)
ResultPaths == {results[i].path : i \in DOMAIN results}

\* with a structural pattern and a readable tree, the collected results are
\* for the files whose language accepts the pattern and has a matching node:
\* main.py and main.rs for $X($$$), the two Rust files for fn $X; never the
\* file without a language, and walk was called on every file
StructuralSkip ==
    (pc = "collected" /\ is_ast_pattern(params[1].pattern) /\ faulty = {}) =>
        /\ \A f \in ResultPaths :
              /\ Lang(f) # "none"
              /\ PatternKind(params[1].pattern, Lang(f)) # "invalid"
        /\ params[1].pattern = CallPattern => ResultPaths = {1, 2}
        /\ params[1].pattern = FnPattern => ResultPaths = {2, 5}
        /\ Files \subseteq VisitedSet(1)

\* fn $X was searched: the Python file visited first gave no result and the
\* Rust files visited after it were reported
StructuralSkipWitness ==
    /\ pc = "collected"
    /\ params[1].pattern = FnPattern
    /\ faulty = {}
    /\ ResultPaths = {2, 5}
    /\ visited[1][2] = 1

(* ------------------------------------------------------------------ *)
(* C25: with threads = 1 every regular file under the roots is visited *)
(* exactly once and the FileMatches are sent in the walker's order,    *)
(* sorted by file name, so that two runs over the same tree with the   *)
(* same pattern deliver the same sequence of FileMatch.                *)
(* ------------------------------------------------------------------ *)
\* the FileMatches sent so far, in the order a receiver gets them
SentPaths == [i \in 1..(Len(results) + Len(buf[1])) |->
                 IF i <= Len(results) THEN results[i].path
                 ELSE buf[1][i - Len(results)].path]

\* the files search reports: readable, below a readable root, with a line
\* or node found
Reported(f) ==
    /\ Root \notin faulty
    /\ f \notin faulty
    /\ FinderFind(params[1], f, TestTree[f]) # <<>>

TerminalSet ==
    {[path |-> f, lines |-> FinderFind(params[1], f, TestTree[f])] :
        f \in {h \in Files : Reported(h)}}

Emitted ==
    {results[i] : i \in DOMAIN results}
        \cup {buf[1][i] : i \in DOMAIN buf[1]}
        \cup {FileMatchOf(1, w) : w \in Senders(1)}

\* every range of every line of every FileMatch emitted, by either finder,
\* starts at or after 0, ends at or after its start and at or before the
\* length of the text of the line
RangesWithinText ==
    \A m \in Emitted :
        \A k \in DOMAIN m.lines :
            \A n \in DOMAIN m.lines[k].ranges :
                LET rg == m.lines[k].ranges[n] IN
                /\ 0 <= rg.start
                /\ rg.start <= rg.end
                /\ rg.end <= Len(m.lines[k].text)

\* a line was emitted with a match that starts inside the text and ends
\* where the text ends (the empty pattern of the regex finder)
RangesWithinTextWitness ==
    /\ pc = "collected"
    /\ \E i \in DOMAIN results :
          \E k \in DOMAIN results[i].lines :
              \E n \in DOMAIN results[i].lines[k].ranges :
                  /\ results[i].lines[k].ranges[n].start > 0
                  /\ results[i].lines[k].ranges[n].end
                        = Len(results[i].lines[k].text)

(* ------------------------------------------------------------------ *)
(* C28: structural replacement applies all edits of a file in one pass *)
(* from the end of the file backward, so that each edit is applied at  *)
(* offsets still valid for the original text; the result equals        *)
(* replacing every matched node by its expansion (both print(x + y)    *)
(* and thing(3, 5) gain the extra argument).                           *)
(* ------------------------------------------------------------------ *)
\* t ends with the characters of e
EndsWith(t, e) ==
    Len(t) >= Len(e) /\ SubSeq(t, Len(t) - Len(e) + 1, Len(t)) = e

\* after AstFinder::replace of $X($$$) by $X($$$,5), the text has as many
\* calls as before and every one of them has gained the argument
AllMatchesReplaced ==
    (/\ fx.fn = "AstFinder::replace"
     /\ fx.pattern = CallPattern
     /\ fx.result # "Err") =>
        LET calls == FindAll(fx.result, "call") IN
        /\ Len(calls) = Len(FindAll(fx.text, "call"))
        /\ \A k \in DOMAIN calls :
              EndsWith(SubSeq(fx.result, calls[k].start, calls[k].end),
                       <<",", "5", ")">>)

(* ------------------------------------------------------------------ *)
(* C29: a LineMatch of the regex finder carries the 1-based number of  *)
(* the matched line, a LineMatch of the structural finder the 0-based  *)
(* number of the line its match starts on; within one FileMatch the    *)
(* lines are in document order (line numbers never decrease).          *)
(* ------------------------------------------------------------------ *)
\* text occurs in file at index i
OccursAt(file, text, i) ==
    i + Len(text) - 1 <= Len(file) /\ SubSeq(file, i, i + Len(text) - 1) = text

NewlinesBefore(file, i) == Cardinality({j \in 1..(i - 1) : file[j] = "\n"})

\* every line emitted by the regex finder is a line of the file, numbered
\* from 1; every line emitted by the structural finder is a text that starts
\* on the line of that number, counted from 0; the numbers of a FileMatch
\* never decrease.  In main.py the calls are on lines 0, 0 and 1; in main.rs
\* the function item is on line 1 and the line with g has number 2
LineNumbers ==
    \A m \in Emitted :
        LET file == TestTree[m.path] IN
        /\ \A k \in DOMAIN m.lines :
              \E i \in 1..Len(file) :
                  /\ OccursAt(file, m.lines[k].text, i)
                  /\ IF is_ast_pattern(params[1].pattern)
                     THEN m.lines[k].number = NewlinesBefore(file, i)
                     ELSE /\ i = 1 \/ file[i - 1] = "\n"
                          /\ m.lines[k].number = NewlinesBefore(file, i) + 1
        /\ \A k, n \in DOMAIN m.lines :
              k < n => m.lines[k].number <= m.lines[n].number
        /\ (params[1].pattern = CallPattern /\ m.path = 1) =>
              [k \in DOMAIN m.lines |-> m.lines[k].number] = <<0, 0, 1>>
        /\ (params[1].pattern = FnPattern /\ m.path = 2) =>
              [k \in DOMAIN m.lines |-> m.lines[k].number] = <<1>>
        /\ (params[1].pattern = <<"g">> /\ m.path = 2) =>
              [k \in DOMAIN m.lines |-> m.lines[k].number] = <<2>>

\* $X($$$) was searched and main.py was collected with its three calls
LineNumbersWitness ==
    /\ pc = "collected"
    /\ params[1].pattern = CallPattern
    /\ \E i \in DOMAIN results :
          /\ results[i].path = 1
          /\ Len(results[i].lines) = 3
          /\ results[i].lines[3].number = 1

(* ------------------------------------------------------------------ *)
(* C30: in every reachable state every cached substitution shows the   *)
(* replacement that the current regex and the current replacement      *)
(* string give for its matched sub-text, however the arrivals of       *)
(* results (on_finding) and the edits of the replacement string       *)
(* (update_replacement) interleave: a result that arrives after an     *)
(* edit gets the preview an earlier, updated result of the same text   *)
(* has.                                                                *)
(* ------------------------------------------------------------------ *)
\* the cached ranges with their replacements, line by line
Previews(fs) ==
    [k \in DOMAIN fs.subs |->
        [text |-> fs.subs[k].text, matches |-> fs.subs[k].matches]]

\* with no regex nothing is cached; each cached replacement is the one of the
\* current regex and replacement string; with the regex a or (?i)a and the
\* replacement string a, which has no group reference, every replacement
\* shown is the text a; two cached lines of the same text show the same
\* previews
PreviewConsistent ==
    /\ re = <<>> => subs = <<>>
    /\ \A i \in DOMAIN subs : \A k \in DOMAIN subs[i].subs :
          \A m \in DOMAIN subs[i].subs[k].matches :
              /\ subs[i].subs[k].matches[m].replacement =
                    MatchReplacement(re[1], subs[i].subs[k].text,
                                     subs[i].subs[k].matches[m].range,
                                     replacement_input.pattern)
              /\ (re[1].pattern = <<"a">> /\ replacement_input.pattern = <<"a">>) =>
                    subs[i].subs[k].matches[m].replacement = <<"a">>
    /\ \A i, j \in DOMAIN subs : \A k \in DOMAIN subs[i].subs :
          \A n \in DOMAIN subs[j].subs :
              subs[i].subs[k].text = subs[j].subs[n].text =>
                  subs[i].subs[k].matches = subs[j].subs[n].matches

\* a result was cached, the replacement string was then edited to a text
\* that is not empty, and another result arrived after the edit
PreviewConsistentWitness ==
    /\ recomputed
    /\ lateFinding
    /\ Len(subs) >= 2
    /\ replacement_input.pattern # <<>>
    /\ \E i \in DOMAIN subs : \E k \in DOMAIN subs[i].subs :
          subs[i].subs[k].matches # <<>>

(* ------------------------------------------------------------------ *)
(* C31: LineInput::handle_key_event returns Some exactly when the key  *)
(* changed the text: None for cursor movements, for a deletion at a    *)
(* boundary (backspace at 0, delete at the end, delete-line on an      *)
(* empty line) and for unbound keys with a modifier other than shift.  *)
(* ------------------------------------------------------------------ *)
InputCalled == fx.fn = "LineInput::handle_key_event"

ReportsChanges ==
    InputCalled =>
        /\ fx.some <=> pattern_input.pattern # fx.before.pattern
        /\ fx.key \in {"left", "right", "home", "end", "c-x", "tab", "enter"}
              => ~fx.some
        /\ (fx.key = "backspace" /\ fx.before.cursor_pos = 0) => ~fx.some
        /\ (fx.key \in {"c-d", "c-k"}
              /\ fx.before.cursor_pos = Len(fx.before.pattern)) => ~fx.some
        /\ (fx.key = "c-u" /\ fx.before.pattern = <<>>) => ~fx.some
        /\ fx.key \in CharKeys => fx.some

\* DeleteWord with only whitespace between the last word and the cursor:
\* the word and the whitespace go, Some is returned
ReportsChangesWitness ==
    /\ InputCalled
    /\ fx.key = "c-w"
    /\ fx.before = [pattern |-> <<"a", " ">>, cursor_pos |-> 2]
    /\ fx.some
    /\ pattern_input.pattern = <<>>

(* ------------------------------------------------------------------ *)
(* C32: after any sequence of key events on ASCII input the cursor of  *)
(* a LineInput is between 0 and the length of the text; CursorLeft at  *)
(* 0 and CursorRight at the end leave it where it is; a typed          *)
(* character is inserted at the cursor, which advances by one;         *)
(* backspace removes the character before the cursor, which moves      *)
(* back by one.                                                        *)
(* ------------------------------------------------------------------ *)
CursorBounds ==
    /\ pattern_input.cursor_pos \in 0..Len(pattern_input.pattern)
    /\ InputCalled =>
        LET old == fx.before.pattern
            c == fx.before.cursor_pos
            new == pattern_input.pattern
        IN
        /\ (fx.key = "left" /\ c = 0) => pattern_input = fx.before
        /\ (fx.key = "right" /\ c = Len(old)) => pattern_input = fx.before
        /\ fx.key \in CharKeys =>
              /\ pattern_input.cursor_pos = c + 1
              /\ Len(new) = Len(old) + 1
              /\ new[c + 1] = fx.key
              /\ \A i \in 1..c : new[i] = old[i]
              /\ \A i \in (c + 1)..Len(old) : new[i + 1] = old[i]
        /\ (fx.key = "backspace" /\ c > 0) =>
              /\ pattern_input.cursor_pos = c - 1
              /\ Len(new) = Len(old) - 1
              /\ \A i \in 1..(c - 1) : new[i] = old[i]
              /\ \A i \in (c + 1)..Len(old) : new[i - 1] = old[i]

\* CursorRight pressed with the cursor at the end of a text that is not
\* empty
CursorBoundsWitness ==
    /\ InputCalled
    /\ fx.key = "right"
    /\ fx.before = [pattern |-> <<"a", "(">>, cursor_pos |-> 2]
    /\ pattern_input = fx.before

(* ------------------------------------------------------------------ *)
(* C33: DeleteWord with the cursor at p > 0 removes the text from just *)
(* after the last whitespace character before the last word before     *)
(* the cursor (whitespace directly before the cursor is ignored) up to *)
(* the cursor, or from the start of the line if there is no such       *)
(* whitespace; the text after the cursor is kept and the cursor ends   *)
(* at the start of the removed span; at p = 0 nothing happens and None *)
(* is returned.                                                        *)
(* ------------------------------------------------------------------ *)
\* the largest index of set, 0 if it is empty
Last(set) == IF set = {} THEN 0 ELSE CHOOSE i \in set : \A j \in set : j <= i

\* the end of the last word before position p of text, 0 if there is none
WordEnd(text, p) == Last({i \in 1..p : text[i] # " "})

\* the number of characters in front of the removed span
SpanStart(text, p) == Last({i \in 1..(WordEnd(text, p) - 1) : text[i] = " "})

DeleteWordSpan ==
    (InputCalled /\ fx.key = "c-w") =>
        LET old == fx.before.pattern
            p == fx.before.cursor_pos
        IN IF p = 0 THEN pattern_input = fx.before /\ ~fx.some
           ELSE /\ pattern_input.pattern =
                      SubSeq(old, 1, SpanStart(old, p)) \o SubSeq(old, p + 1, Len(old))
                /\ pattern_input.cursor_pos = SpanStart(old, p)
                /\ fx.some

\* a blank and a word with the cursor inside the word: the part of the word
\* before the cursor goes, the blank and the rest of the word stay
DeleteWordSpanWitness ==
    /\ InputCalled
    /\ fx.key = "c-w"
    /\ fx.before = [pattern |-> <<" ", "a", "(">>, cursor_pos |-> 2]
    /\ pattern_input = [pattern |-> <<" ", "(">>, cursor_pos |-> 1]

(* ------------------------------------------------------------------ *)
(* C34: a configuration loaded from a file that binds some keys keeps  *)
(* every default binding of a key the file does not bind and replaces  *)
(* only the bindings of the keys it binds, whether it is loaded by     *)
(* Config::from_str or by load_config.                                 *)
(* ------------------------------------------------------------------ *)
KeepsDefaults ==
    (fx.fn \in {"Config::from_str", "load_config"} /\ fx.file.has_keys) =>
        /\ DOMAIN fx.keys = DOMAIN KeyMap \cup DOMAIN fx.file.keys
        /\ \A k \in DOMAIN fx.keys :
              fx.keys[k] = IF k \in DOMAIN fx.file.keys THEN fx.file.keys[k]
                           ELSE KeyMap[k]

(* ------------------------------------------------------------------ *)
(* C35: whenever replace_all rewrites files, the expression it         *)
(* substitutes with is the compiled form of the text now in the        *)
(* pattern input under the current ignore-case setting; a Commit never *)
(* rewrites files with an earlier pattern, such as when the current    *)
(* text is not a valid regex.                                          *)
(* ------------------------------------------------------------------ *)
CommitsVisiblePattern ==
    written # {} =>
        /\ Compiles(pattern_input.pattern)
        /\ re = <<[pattern |-> pattern_input.pattern, ignore_case |-> ignore_case]>>

(* ------------------------------------------------------------------ *)
(* C36: Commit rewrites each matched file exactly once: no path occurs *)
(* twice among the cached results and the results drained from the     *)
(* stream of the same search, so the replacement is applied once to    *)
(* each file, also when the root paths overlap or contain each other.  *)
(* ------------------------------------------------------------------ *)
WrittenPathSet == {w.path : w \in written}

\* the cached results have distinct paths, and a step that changes the
\* text of a file changes a file that was not written before (the
\* replacement ${0}a changes the text of every file it is applied to)
RewrittenOnce ==
    [][/\ \A i, j \in DOMAIN subs' : i # j => subs'[i].path # subs'[j].path
       /\ \A f \in Files : disk'[f] # disk[f] => f \notin WrittenPathSet]_vars

(* ------------------------------------------------------------------ *)
(* C37: in every reachable state scroll = 0 or scroll is less than the *)
(* number of cached results; ScrollDown with no cached result leaves   *)
(* scroll at 0 (subs.len() - 1 does not underflow), and a pattern      *)
(* change that clears the results does not leave scroll past the end   *)
(* of the list.                                                        *)
(* ------------------------------------------------------------------ *)
ScrollInRange ==
    /\ pc # "panic"
    /\ scroll = 0 \/ scroll < Len(subs)

(* ------------------------------------------------------------------ *)
(* C38: under fair scheduling every search thread ends: one whose      *)
(* receiver was dropped (its search superseded, or the App gone) is    *)
(* released from a blocked send and exits, and one whose channel       *)
(* Commit drains exits after its finite walk; no search thread stays   *)
(* blocked forever once its search is superseded, drained or the App   *)
(* is gone.                                                            *)
(* ------------------------------------------------------------------ *)
\* search thread g was started and its receiver is dropped or being drained
Released(g) == g <= gens /\ (~RxAlive(g) \/ pc = "drain")

\* a search thread that is released stays released, and from some point on
\* every released search thread has ended: each released search thread
\* ends, and there are finitely many
ProducersTerminate ==
    /\ [][\A g \in Gens : Released(g) => Released(g)']_vars
    /\ <>[](\A g \in Gens : Released(g) => Disconnected(g))

\* a parallel search was superseded, one of its walker threads got an error
\* from send and set the quit flag, and every thread of it has ended
ProducersTerminateWitness ==
    /\ gens = 2
    /\ quitNow[1]
    /\ Disconnected(1)

(* ------------------------------------------------------------------ *)
(* C39: a key event that changes neither the pattern text nor a search *)
(* option (a cursor movement in either input, ToggleSearchReplace,     *)
(* ScrollUp, ScrollDown, ScrollTop, any edit of the replacement input) *)
(* does not restart the search: the receiver, the running search       *)
(* threads, the compiled regex and the paths, texts and ranges of the  *)
(* cached results are as they were.                                    *)
(* ------------------------------------------------------------------ *)
\* the key is bound to a cursor movement, to ToggleSearchReplace or to a
\* scroll action, or it goes to the replacement input
KeepsSearch(key) ==
    \/ ActionOf(key) \in {"CursorLeft", "CursorRight", "CursorHome", "CursorEnd",
                          "ToggleSearchReplace", "ScrollUp", "ScrollDown",
                          "ScrollTop"}
    \/ /\ ~editing_pattern
       /\ ActionOf(key) \notin {"Exit", "Confirm", "ToggleIgnoreCase",
                                "ToggleMultiLine"}

\* the step in which handle_events handles such a key leaves the receiver
\* held and alive, the search threads and the regex alone, and the cached
\* results keep their paths, texts and ranges
KeysKeepSearch ==
    [][(evReady # <<>> /\ evReady' = <<>> /\ KeepsSearch(evReady[1])) =>
          /\ search_rx' = search_rx
          /\ AppAlive'
          /\ re' = re
          /\ prodVars' = prodVars
          /\ [i \in DOMAIN subs' |-> Scanned(subs'[i])]
                = [i \in DOMAIN subs |-> Scanned(subs[i])]]_vars

(* ------------------------------------------------------------------ *)
(* C40: every LineMatch the regex finder emits has at least one        *)
(* sub-range: whenever the searcher reports a line (or block), the     *)
(* separately compiled regex finds a match in its text, for every      *)
(* combination of ignore-case and multi-line, also for a pattern with  *)
(* the anchor $ on a line that ends with a line terminator.            *)
(* ------------------------------------------------------------------ *)
EveryLineHasRange ==
    fx.fn = "RegexFinder::find" =>
        \A k \in DOMAIN fx.lines : fx.lines[k].ranges # <<>>

====
